---------------------------- MODULE Spec2Model ----------------------------
(***************************************************************************)
(* Seoul subway congestion dashboard: the preprocessing pipeline           *)
(* (utils/data_processor.py), its driver (preprocess.py) and the Query     *)
(* Layer the dashboard pages call on the persisted snapshot.               *)
(*                                                                         *)
(* Text is modelled as a sequence of characters, so that the header and    *)
(* cell conversions are computed character by character the way the        *)
(* Python code computes them.  A DataFrame is a record                     *)
(* [columns |-> <<label, ...>>, rows |-> <<<<value, ...>>, ...>>].         *)
(* A call that can raise returns [ok |-> TRUE, ...] or                     *)
(* [ok |-> FALSE, err |-> <exception name>].                               *)
(***************************************************************************)
EXTENDS Integers, Sequences, FiniteSets, TLC

(***************************************************************************)
(* Bounds of the model.                                                    *)
(***************************************************************************)
MaxCells == 2
MaxN == 2
MaxOccupancy == 80
MaxHour == 24
MaxRows == 2
MaxCallers == 2

(***************************************************************************)
(* Python str primitives.                                                  *)
(***************************************************************************)
DigitChars == <<"0", "1", "2", "3", "4", "5", "6", "7", "8", "9">>

DigitValues ==
  [c \in {DigitChars[i] : i \in 1..10} |-> (CHOOSE i \in 1..10 : DigitChars[i] = c) - 1]

IsDigit(c) == c \in DOMAIN DigitValues

DigitVal(c) == DigitValues[c]

\* Unicode code points of the characters (str comparison is by code point).
\* A Hangul syllable is written by its romanisation: "si" is U+C2DC, "bun"
\* is U+BD84, and so on.
CodePoints ==
  [c \in DOMAIN DigitValues |-> 48 + DigitValues[c]]
  @@ (" " :> 32) @@ ("+" :> 43) @@ ("-" :> 45) @@ (":" :> 58)
  @@ ("gan" :> 44036) @@ ("gang" :> 44053) @@ ("gyeong" :> 44221)
  @@ ("gu" :> 44396) @@ ("nam" :> 45224) @@ ("dae" :> 45824)
  @@ ("do" :> 46020) @@ ("myeong" :> 47749) @@ ("bal" :> 48156)
  @@ ("bang" :> 48169) @@ ("beon" :> 48264) @@ ("bun" :> 48516)
  @@ ("sang" :> 49345) @@ ("seo" :> 49436) @@ ("seon" :> 49440)
  @@ ("si" :> 49884) @@ ("yeok" :> 50669) @@ ("yo" :> 50836)
  @@ ("ul" :> 50872) @@ ("ui" :> 51032) @@ ("il" :> 51068)
  @@ ("jap" :> 51105) @@ ("jeon" :> 51204) @@ ("cheong" :> 52397)
  @@ ("che" :> 52404) @@ ("chul" :> 52636) @@ ("to" :> 53664)
  @@ ("pyeong" :> 54217) @@ ("ha" :> 54616) @@ ("haeng" :> 54665)
  @@ ("hyang" :> 54693) @@ ("ho" :> 54840) @@ ("hon" :> 54844)
  @@ ("hyu" :> 55092)

Ord(c) == CodePoints[c]

\* s < t for Python strings.
RECURSIVE StrLess(_, _)
StrLess(s, t) ==
  IF t = <<>> THEN FALSE
  ELSE IF s = <<>> THEN TRUE
  ELSE IF Ord(Head(s)) # Ord(Head(t)) THEN Ord(Head(s)) < Ord(Head(t))
  ELSE StrLess(Tail(s), Tail(t))

\* c in s
Contains(s, c) == \E i \in 1..Len(s) : s[i] = c

\* s.replace(c, r) for a one-character c.
RECURSIVE Replace(_, _, _)
Replace(s, c, r) ==
  IF s = <<>> THEN <<>>
  ELSE (IF Head(s) = c THEN r ELSE <<Head(s)>>) \o Replace(Tail(s), c, r)

RECURSIVE LStrip(_)
LStrip(s) == IF s # <<>> /\ Head(s) = " " THEN LStrip(Tail(s)) ELSE s

RECURSIVE RStrip(_)
RStrip(s) ==
  IF s # <<>> /\ s[Len(s)] = " " THEN RStrip(SubSeq(s, 1, Len(s) - 1)) ELSE s

\* s.strip()
Strip(s) == RStrip(LStrip(s))

\* s.split(c): the parts between the occurrences of c.
RECURSIVE SplitFrom(_, _, _)
SplitFrom(s, c, cur) ==
  IF s = <<>> THEN <<cur>>
  ELSE IF Head(s) = c THEN <<cur>> \o SplitFrom(Tail(s), c, <<>>)
  ELSE SplitFrom(Tail(s), c, Append(cur, Head(s)))

Split(s, c) == SplitFrom(s, c, <<>>)

RECURSIVE DigitsVal(_, _)
DigitsVal(s, acc) ==
  IF s = <<>> THEN acc ELSE DigitsVal(Tail(s), 10 * acc + DigitVal(Head(s)))

AllDigits(s) == s # <<>> /\ \A i \in 1..Len(s) : IsDigit(s[i])

\* int(s): surrounding whitespace and one sign are accepted, anything else
\* raises ValueError.
ParseInt(s) ==
  LET t == Strip(s)
      signed == t # <<>> /\ Head(t) \in {"+", "-"}
      body == IF signed THEN Tail(t) ELSE t
  IN IF AllDigits(body)
       THEN [ok |-> TRUE,
             val |-> IF signed /\ Head(t) = "-" THEN 0 - DigitsVal(body, 0)
                     ELSE DigitsVal(body, 0)]
       ELSE [ok |-> FALSE, err |-> "ValueError"]

RECURSIVE NatStr(_)
NatStr(n) ==
  IF n < 10 THEN <<DigitChars[n + 1]>>
  ELSE NatStr(n \div 10) \o <<DigitChars[(n % 10) + 1]>>

\* f"{n:02d}": zero padded to width two, the sign counts in the width.
Format02d(n) ==
  IF n < 0 THEN <<"-">> \o NatStr(0 - n)
  ELSE IF n < 10 THEN <<"0">> \o NatStr(n)
  ELSE NatStr(n)

(***************************************************************************)
(* Column labels of the fixed schema.                                      *)
(***************************************************************************)
ColDay == <<"yo", "il", "gu", "bun">>            \* day-type
ColLine == <<"ho", "seon">>                      \* line
ColStationNo == <<"yeok", "beon", "ho">>         \* station-number
ColStation == <<"yeok", "myeong">>               \* station-name
ColDirection == <<"bang", "hyang">>              \* direction

Raise(e) == [ok |-> FALSE, err |-> e]

\* Python's None, for a local not yet assigned or an argument not given.
None == [ok |-> FALSE, err |-> "None"]

Some(v) == [ok |-> TRUE, val |-> v]

Return(df) == [ok |-> TRUE, df |-> df]

\* The positions of the columns labelled col.
ColumnsNamed(df, col) == {i \in 1..Len(df.columns) : df.columns[i] = col}

(***************************************************************************)
(* clean_column_names: the first five columns get the fixed names.         *)
(* Assigning a list of another length to df.columns raises ValueError.     *)
(***************************************************************************)
\* clean_column_names with the last two names exchanged.
clean_column_namesSwapped(df) ==
  LET cols == df.columns
      new_cols == <<ColDay, ColLine, ColStationNo, ColDirection, ColStation>>
                    \o SubSeq(cols, 6, Len(cols))
  IN IF Len(new_cols) # Len(cols) THEN Raise("ValueError")
     ELSE Return([df EXCEPT !.columns = new_cols])

clean_column_names(df) ==
  LET cols == df.columns
      new_cols == <<ColDay, ColLine, ColStationNo, ColStation, ColDirection>>
                    \o SubSeq(cols, 6, Len(cols))
  IN IF Len(new_cols) # Len(cols) THEN Raise("ValueError")
     ELSE Return([df EXCEPT !.columns = new_cols])

(***************************************************************************)
(* convert_time_columns: "5si30bun" -> "05:30", hour 0 -> 24.              *)
(***************************************************************************)
\* RemapHour without the midnight case.
RemapHourNone(hour) == hour

\* The hour written in the canonical label for a parsed hour.
RemapHour(hour) == IF hour = 0 THEN 24 ELSE hour

\* The entry of time_mapping for one header: renamed or left alone, or the
\* ValueError of int().
TimeMappingEntry(col) ==
  IF ~(Contains(col, "si") /\ Contains(col, "bun"))
    THEN [ok |-> TRUE, label |-> col]
  ELSE LET col_clean == Strip(Replace(Replace(col, "si", <<":">>), "bun", <<>>))
           parts == Split(col_clean, ":")
       IN IF Len(parts) # 2 THEN [ok |-> TRUE, label |-> col]
          ELSE LET hour == ParseInt(parts[1])
                   minute == ParseInt(parts[2])
               IN IF ~hour.ok \/ ~minute.ok THEN Raise("ValueError")
                  ELSE [ok |-> TRUE,
                        label |-> Format02d(RemapHour(hour.val)) \o <<":">>
                                    \o Format02d(minute.val)]

convert_time_columns(df) ==
  LET n == Len(df.columns)
      m == [i \in 1..n |-> TimeMappingEntry(df.columns[i])]
  IN IF \E i \in 1..n : ~m[i].ok THEN Raise("ValueError")
     ELSE Return([df EXCEPT !.columns = [i \in 1..n |-> m[i].label]])

\* [col for col in df.columns if ':' in str(col)]
TimeColumnIndexes(df) == {i \in 1..Len(df.columns) : Contains(df.columns[i], ":")}

TimeColumns(df) ==
  LET RECURSIVE Pick(_)
      Pick(i) == IF i > Len(df.columns) THEN <<>>
                 ELSE (IF i \in TimeColumnIndexes(df) THEN <<df.columns[i]>> ELSE <<>>)
                        \o Pick(i + 1)
  IN Pick(1)

(***************************************************************************)
(* clean_congestion_values                                                 *)
(***************************************************************************)
NaN == [nan |-> TRUE]

\* to_numeric on the text with every blank removed, not only the outer ones.
to_numericNoBlanks(cell) ==
  LET r == ParseInt(Replace(cell, " ", <<>>))
  IN IF r.ok THEN [nan |-> FALSE, val |-> r.val] ELSE NaN

\* pd.to_numeric(errors='coerce') of one stripped cell: a signed decimal
\* integer is its value, any other text is NaN.
to_numeric(cell) ==
  LET r == ParseInt(cell)
  IN IF r.ok THEN [nan |-> FALSE, val |-> r.val] ELSE NaN

\* clip without the lower bound.
clipNone(x) == x

\* Series.clip(lower=0): NaN stays NaN.
clip(x) == IF x.nan \/ x.val >= 0 THEN x ELSE [nan |-> FALSE, val |-> 0]

\* Series.fillna(0)
fillna(x) == IF x.nan THEN 0 ELSE x.val

CleanCell(cell) == fillna(clip(to_numeric(Strip(cell))))

\* One pass of the loop body for column label col.
CleanColumn(df, col) ==
  LET at == ColumnsNamed(df, col)
  IN IF at = {} THEN Return(df)
     ELSE IF Cardinality(at) > 1 THEN Raise("AttributeError")
     ELSE Return([df EXCEPT !.rows =
            [r \in 1..Len(df.rows) |->
               [c \in 1..Len(df.columns) |->
                  IF c \in at THEN CleanCell(df.rows[r][c]) ELSE df.rows[r][c]]]])

RECURSIVE CleanLoop(_, _)
CleanLoop(df, time_columns) ==
  IF time_columns = <<>> THEN Return(df)
  ELSE LET one == CleanColumn(df, Head(time_columns))
       IN IF ~one.ok THEN one ELSE CleanLoop(one.df, Tail(time_columns))

clean_congestion_values(df, time_columns) == CleanLoop(df, time_columns)

(***************************************************************************)
(* melt_to_long_format                                                     *)
(***************************************************************************)
\* SortKey with the key 0 for a label that does not parse.
SortKeyDefault(label) ==
  LET parts == Split(label, ":")
      hour == ParseInt(parts[1])
      minute == ParseInt(parts[2])
  IN IF ~hour.ok \/ ~minute.ok THEN [ok |-> TRUE, val |-> 0]
     ELSE [ok |-> TRUE, val |-> hour.val * 60 + minute.val]

\* SortKey in hours.
SortKeyHours(label) ==
  LET parts == Split(label, ":")
      hour == ParseInt(parts[1])
      minute == ParseInt(parts[2])
  IN IF ~hour.ok \/ ~minute.ok THEN Raise("ValueError")
     ELSE [ok |-> TRUE, val |-> hour.val]

\* int(x.split(':')[0]) * 60 + int(x.split(':')[1])
SortKey(label) ==
  LET parts == Split(label, ":")
      hour == ParseInt(parts[1])
      minute == ParseInt(parts[2])
  IN IF ~hour.ok \/ ~minute.ok THEN Raise("ValueError")
     ELSE [ok |-> TRUE, val |-> hour.val * 60 + minute.val]

\* The order of sort_values(['line', 'station', 'direction', 'day', 'key']).
RowLess(a, b) ==
  IF a.line # b.line THEN StrLess(a.line, b.line)
  ELSE IF a.name # b.name THEN StrLess(a.name, b.name)
  ELSE IF a.dir # b.dir THEN StrLess(a.dir, b.dir)
  ELSE IF a.day # b.day THEN StrLess(a.day, b.day)
  ELSE a.key < b.key

\* Stable insertion of row x into the sorted sequence s.
RECURSIVE InsertRow(_, _)
InsertRow(s, x) ==
  IF s = <<>> THEN <<x>>
  ELSE IF RowLess(x, Head(s)) THEN <<x>> \o s
  ELSE <<Head(s)>> \o InsertRow(Tail(s), x)

RECURSIVE SortRows(_)
SortRows(s) ==
  IF s = <<>> THEN <<>>
  ELSE InsertRow(SortRows(SubSeq(s, 1, Len(s) - 1)), s[Len(s)])

\* The value of row r in the first column labelled col.
Cell(df, r, col) == df.rows[r][CHOOSE i \in ColumnsNamed(df, col) :
                                 \A j \in ColumnsNamed(df, col) : i <= j]

\* The rows pd.melt makes of time column c: one per input row, in row order.
MeltColumn(df, c, key) ==
  LET ids == {i \in 1..Len(df.columns) : i \notin TimeColumnIndexes(df)}
      fixed == {ColDay, ColLine, ColStationNo, ColStation, ColDirection}
      RECURSIVE Extra(_, _)
      Extra(r, i) ==
        IF i > Len(df.columns) THEN <<>>
        ELSE (IF i \in ids /\ df.columns[i] \notin fixed
                THEN <<df.rows[r][i]>> ELSE <<>>) \o Extra(r, i + 1)
  IN [r \in 1..Len(df.rows) |->
        [day |-> Cell(df, r, ColDay), line |-> Cell(df, r, ColLine),
         stno |-> Cell(df, r, ColStationNo), name |-> Cell(df, r, ColStation),
         dir |-> Cell(df, r, ColDirection), extra |-> Extra(r, 1),
         slot |-> df.columns[c], occ |-> df.rows[r][c], key |-> key]]

RECURSIVE MeltFrom(_, _)
MeltFrom(df, c) ==
  IF c > Len(df.columns) THEN [ok |-> TRUE, rows |-> <<>>]
  ELSE IF c \notin TimeColumnIndexes(df) THEN MeltFrom(df, c + 1)
  ELSE LET key == SortKey(df.columns[c])
           rest == MeltFrom(df, c + 1)
       IN IF ~key.ok THEN key
          ELSE IF ~rest.ok THEN rest
          ELSE [ok |-> TRUE, rows |-> MeltColumn(df, c, key.val) \o rest.rows]

\* melt_to_long_format with the first time column left out of value_vars.
melt_to_long_formatSkipFirst(df) ==
  LET first == CHOOSE c \in TimeColumnIndexes(df) :
                 \A d \in TimeColumnIndexes(df) : c <= d
      melted == MeltFrom(df, first + 1)
  IN IF ~melted.ok THEN melted ELSE [ok |-> TRUE, rows |-> SortRows(melted.rows)]

melt_to_long_format(df) ==
  LET melted == MeltFrom(df, 1)
  IN IF ~melted.ok THEN melted ELSE [ok |-> TRUE, rows |-> SortRows(melted.rows)]

(***************************************************************************)
(* add_derived_columns                                                     *)
(***************************************************************************)
LineListDefault == 999

LevelRelaxed == "relaxed"          \* the level below 50
LevelNormal == "normal"            \* the level from 50, below 70
LevelCongested == "congested"      \* the level from 70

\* get_congestion_level with the first band closed at 50.
get_congestion_levelInclusive(congestion) ==
  IF congestion <= 50 THEN LevelRelaxed
  ELSE IF congestion < 70 THEN LevelNormal
  ELSE LevelCongested

get_congestion_level(congestion) ==
  IF congestion < 50 THEN LevelRelaxed
  ELSE IF congestion < 70 THEN LevelNormal
  ELSE LevelCongested

\* get_time_period with the hour 24 in the last named range.
get_time_periodMidnightEvening(time_str) ==
  LET hour == ParseInt(Split(time_str, ":")[1])
  IN IF ~hour.ok THEN Raise("ValueError")
     ELSE [ok |-> TRUE, val |->
       IF 5 <= hour.val /\ hour.val < 9 THEN "commute_in"
       ELSE IF 9 <= hour.val /\ hour.val < 12 THEN "morning"
       ELSE IF 12 <= hour.val /\ hour.val < 14 THEN "lunch"
       ELSE IF 14 <= hour.val /\ hour.val < 18 THEN "afternoon"
       ELSE IF 18 <= hour.val /\ hour.val < 21 THEN "commute_out"
       ELSE IF 21 <= hour.val /\ hour.val <= 24 THEN "evening"
       ELSE "late_night"]

get_time_period(time_str) ==
  LET hour == ParseInt(Split(time_str, ":")[1])
  IN IF ~hour.ok THEN Raise("ValueError")
     ELSE [ok |-> TRUE, val |->
       IF 5 <= hour.val /\ hour.val < 9 THEN "commute_in"
       ELSE IF 9 <= hour.val /\ hour.val < 12 THEN "morning"
       ELSE IF 12 <= hour.val /\ hour.val < 14 THEN "lunch"
       ELSE IF 14 <= hour.val /\ hour.val < 18 THEN "afternoon"
       ELSE IF 18 <= hour.val /\ hour.val < 21 THEN "commute_out"
       ELSE IF 21 <= hour.val /\ hour.val < 24 THEN "evening"
       ELSE "late_night"]

\* str.extract(r'(\d+)'): the first run of digits, NaN when there is none.
RECURSIVE DigitRun(_)
DigitRun(s) ==
  IF s = <<>> \/ ~IsDigit(Head(s)) THEN <<>> ELSE <<Head(s)>> \o DigitRun(Tail(s))

RECURSIVE ExtractDigits(_)
ExtractDigits(s) ==
  IF s = <<>> THEN NaN
  ELSE IF IsDigit(Head(s)) THEN [nan |-> FALSE, val |-> DigitsVal(DigitRun(s), 0)]
  ELSE ExtractDigits(Tail(s))

\* .astype(int) of the extracted column: a NaN in it raises ValueError.
LineNumbers(lines) ==
  LET got == [i \in 1..Len(lines) |-> ExtractDigits(lines[i])]
  IN IF \E i \in 1..Len(lines) : got[i].nan THEN Raise("ValueError")
     ELSE [ok |-> TRUE, val |-> [i \in 1..Len(lines) |-> got[i].val]]

add_derived_columns(rows) ==
  LET n == Len(rows)
      period == [i \in 1..n |-> get_time_period(rows[i].slot)]
      line_no == LineNumbers([i \in 1..n |-> rows[i].line])
  IN IF \E i \in 1..n : ~period[i].ok THEN Raise("ValueError")
     ELSE IF ~line_no.ok THEN line_no
     ELSE [ok |-> TRUE, rows |->
            [i \in 1..n |->
               [day |-> rows[i].day, line |-> rows[i].line, stno |-> rows[i].stno,
                name |-> rows[i].name, dir |-> rows[i].dir, extra |-> rows[i].extra,
                slot |-> rows[i].slot, occ |-> rows[i].occ, key |-> rows[i].key,
                level |-> get_congestion_level(rows[i].occ),
                period |-> period[i].val, line_no |-> line_no.val[i]]]]

(***************************************************************************)
(* preprocess_data: the five stages in order; the first exception ends it. *)
(***************************************************************************)
preprocess_data(df) ==
  LET s1 == clean_column_names(df)
  IN IF ~s1.ok THEN s1 ELSE
  LET s2 == convert_time_columns(s1.df)
  IN IF ~s2.ok THEN s2 ELSE
  LET s3 == clean_congestion_values(s2.df, TimeColumns(s2.df))
  IN IF ~s3.ok THEN s3 ELSE
  LET s4 == melt_to_long_format(s3.df)
  IN IF ~s4.ok THEN s4 ELSE add_derived_columns(s4.rows)

(***************************************************************************)
(* validate_data.  What it reads of a table: the set of its column labels, *)
(* whether the occupancy column has a numeric dtype, the occupancy values  *)
(* that are not null, and the number of null cells in the required         *)
(* columns.  It returns a boolean; the warnings it prints are kept beside  *)
(* it.                                                                     *)
(***************************************************************************)
ColSlot == <<"si", "gan", "dae">>                                \* time-slot
ColOccupancy == <<"hon", "jap", "do">>                           \* occupancy
ColSortKey == <<"si", "gan", "_", "jeong", "ryeol", "yong">>     \* sort-key
ColLevel == <<"hon", "jap", "do", "_", "re", "bel">>             \* level
ColPeriod == <<"si", "gan", "dae", "_", "gu", "bun">>            \* period
ColLineNo == <<"ho", "seon", "_", "beon", "ho">>                 \* line number

required_columns == {ColLine, ColStation, ColDirection, ColDay, ColSlot, ColOccupancy}

WarnHigh == 200

\* The smallest and the largest of a non-empty sequence of numbers.
MinOf(values) == CHOOSE v \in {values[i] : i \in 1..Len(values)} :
                   \A i \in 1..Len(values) : v <= values[i]

MaxOf(values) == CHOOSE v \in {values[i] : i \in 1..Len(values)} :
                   \A i \in 1..Len(values) : v >= values[i]

\* The warnings of the range check and of the null check.
Warnings(df) ==
  (IF df.values # <<>> /\ MinOf(df.values) < 0 THEN {"negative"} ELSE {})
    \cup (IF df.values # <<>> /\ MaxOf(df.values) > WarnHigh THEN {"high"} ELSE {})
    \cup (IF df.nulls > 0 THEN {"null"} ELSE {})

\* validate_data that fails on a negative occupancy.
validate_dataStrict(df) ==
  LET missing_columns == required_columns \ df.columns
  IN IF missing_columns # {} THEN [valid |-> FALSE, warnings |-> {}]
     ELSE IF ~df.numeric THEN [valid |-> FALSE, warnings |-> {}]
     ELSE [valid |-> "negative" \notin Warnings(df), warnings |-> Warnings(df)]

validate_data(df) ==
  LET missing_columns == required_columns \ df.columns
  IN IF missing_columns # {} THEN [valid |-> FALSE, warnings |-> {}]
     ELSE IF ~df.numeric THEN [valid |-> FALSE, warnings |-> {}]
     ELSE [valid |-> TRUE, warnings |-> Warnings(df)]

\* What validate_data reads of the table preprocess_data returned: all the
\* columns are there, the cleaned occupancy column is numeric without nulls.
EnrichedFrame(rows) ==
  [columns |-> required_columns
                 \cup {ColStationNo, ColSortKey, ColLevel, ColPeriod, ColLineNo},
   numeric |-> TRUE,
   values |-> [i \in 1..Len(rows) |-> rows[i].occ],
   nulls |-> 0]

(***************************************************************************)
(* The raw file: the source's five identifier headers, then time-slot      *)
(* headers, and one row per (day-type, line, station, direction).          *)
(***************************************************************************)
RawIdHeaders ==
  << <<"yo", "il", "gu", "bun">>, <<"ho", "seon">>, <<"yeok", "beon", "ho">>,
     <<"chul", "bal", "yeok">>, <<"sang", "ha", "gu", "bun">> >>

\* Time-slot headers a file may carry, in file order.
RawHeaders ==
  << <<"8", "si", "0", "0", "bun">>,
     <<"2", "0", "si", "0", "0", "bun">>,
     <<"2", "3", "si", "3", "0", "bun">>,
     <<"0", "si", "3", "0", "bun">>,
     <<"0", "0", "si", "3", "0", "bun">>,
     <<"si", "bun">> >>

Weekday == <<"pyeong", "il">>
Saturday == <<"to", "yo", "il">>
Sunday == <<"il", "yo", "il">>
Holiday == <<"hyu", "il">>
AllDays == <<"jeon", "che">>

\* Identifier rows a file may carry, in file order: day-type, line, station
\* number, station name, direction.
RawIdRows ==
  << <<Weekday, <<"2", "ho", "seon">>, 222, <<"gang", "nam">>, <<"sang", "seon">> >>,
     <<Saturday, <<"1", "ho", "seon">>, 151, <<"gang", "nam">>, <<"sang", "seon">> >>,
     <<Sunday, <<"2", "ho", "seon">>, 201, <<"si", "cheong">>, <<"sang", "seon">> >>,
     <<Weekday, <<"gyeong", "ui", "seon">>, 901, <<"seo", "ul", "yeok">>,
       <<"sang", "seon">> >>,
     <<Saturday, <<"2", "ho", "seon">>, 222, <<"gang", "nam">>, <<"sang", "seon">> >> >>

\* Cell texts a file may carry.
RawCells ==
  { <<" ", "8", "0", " ">>, <<"3", "0">>, <<"-", "3">>, <<" ", "7", " ", "5", " ">> }

\* The increasing index sequences of length k into 1..n.
RECURSIVE Choices(_, _, _)
Choices(lo, n, k) ==
  IF k = 0 THEN {<<>>}
  ELSE UNION {{<<i>> \o c : c \in Choices(i + 1, n, k - 1)} : i \in lo..n}

\* The shapes (rows, time columns) within the bound on the number of cells.
Shapes ==
  {sh \in (1..Len(RawIdRows)) \X (1..Len(RawHeaders)) : sh[1] * sh[2] <= MaxCells}

\* The file with time headers hs and identifier rows rs (index sequences)
\* and the given cell texts.
RawTable(hs, rs, cells) ==
  [columns |-> RawIdHeaders \o [j \in 1..Len(hs) |-> RawHeaders[hs[j]]],
   rows |-> [i \in 1..Len(rs) |-> RawIdRows[rs[i]] \o cells[i]]]

\* A file with only the first k identifier columns and one row.
ShortTable(k) ==
  [columns |-> SubSeq(RawIdHeaders, 1, k), rows |-> <<SubSeq(RawIdRows[1], 1, k)>>]

(***************************************************************************)
(* Query Layer.  A table is the sequence of its enriched rows; a mean is   *)
(* kept exact as [sum, cnt].                                               *)
(***************************************************************************)
\* The rows of s that satisfy Keep, in order.
SelectRows(s, Keep(_)) ==
  LET RECURSIVE Sel(_)
      Sel(t) == IF t = <<>> THEN <<>>
                ELSE (IF Keep(Head(t)) THEN <<Head(t)>> ELSE <<>>) \o Sel(Tail(t))
  IN Sel(s)

\* filter_data with the lines argument ignored.
filter_dataAnyLine(rows, day_type, lines, time_range) ==
  LET DayOk(r) ==
        IF day_type = <<>> \/ day_type = AllDays THEN TRUE
        ELSE IF day_type = Holiday THEN r.day \in {Saturday, Sunday}
        ELSE r.day = day_type
      TimeOk(r) ==
        IF time_range = None THEN TRUE
        ELSE r.key >= time_range.val[1] * 60 /\ r.key <= time_range.val[2] * 60
      Keep(r) == DayOk(r) /\ TimeOk(r)
  IN SelectRows(rows, Keep)

\* filter_data with the end of the time range left out.
filter_dataHalfOpen(rows, day_type, lines, time_range) ==
  LET DayOk(r) ==
        IF day_type = <<>> \/ day_type = AllDays THEN TRUE
        ELSE IF day_type = Holiday THEN r.day \in {Saturday, Sunday}
        ELSE r.day = day_type
      LineOk(r) == IF lines = None \/ lines.val = {} THEN TRUE ELSE r.line \in lines.val
      TimeOk(r) ==
        IF time_range = None THEN TRUE
        ELSE r.key >= time_range.val[1] * 60 /\ r.key < time_range.val[2] * 60
      Keep(r) == DayOk(r) /\ LineOk(r) /\ TimeOk(r)
  IN SelectRows(rows, Keep)

\* filter_data: lines and time_range are None or a value.
filter_data(rows, day_type, lines, time_range) ==
  LET DayOk(r) ==
        IF day_type = <<>> \/ day_type = AllDays THEN TRUE
        ELSE IF day_type = Holiday THEN r.day \in {Saturday, Sunday}
        ELSE r.day = day_type
      LineOk(r) == IF lines = None \/ lines.val = {} THEN TRUE ELSE r.line \in lines.val
      TimeOk(r) ==
        IF time_range = None THEN TRUE
        ELSE r.key >= time_range.val[1] * 60 /\ r.key <= time_range.val[2] * 60
      Keep(r) == DayOk(r) /\ LineOk(r) /\ TimeOk(r)
  IN SelectRows(rows, Keep)

Sum(rows) ==
  LET RECURSIVE Add(_)
      Add(i) == IF i > Len(rows) THEN 0 ELSE rows[i].occ + Add(i + 1)
  IN Add(1)

\* Series.mean() of the occupancy of a non-empty group.
Mean(rows) == [sum |-> Sum(rows), cnt |-> Len(rows)]

MeanLess(a, b) == a.sum * b.cnt < b.sum * a.cnt

MeanEq(a, b) == a.sum * b.cnt = b.sum * a.cnt

Max(rows) == CHOOSE m \in {rows[i].occ : i \in 1..Len(rows)} :
               \A i \in 1..Len(rows) : rows[i].occ <= m

\* The elements of the finite set S in the order Less: the order in which
\* groupby lists its group keys.
SortedKeys(S, Less(_, _)) ==
  LET RECURSIVE Sorted(_)
      Sorted(T) ==
        IF T = {} THEN <<>>
        ELSE LET first == CHOOSE x \in T : \A y \in T : y = x \/ Less(x, y)
             IN <<first>> \o Sorted(T \ {first})
  IN Sorted(S)

\* A stable sort of the sequence s by Less.
StableSort(s, Less(_, _)) ==
  LET RECURSIVE Insert(_, _)
      Insert(t, x) ==
        IF t = <<>> THEN <<x>>
        ELSE IF Less(x, Head(t)) THEN <<x>> \o t
        ELSE <<Head(t)>> \o Insert(Tail(t), x)
      RECURSIVE Sort(_)
      Sort(t) == IF t = <<>> THEN <<>>
                 ELSE Insert(Sort(SubSeq(t, 1, Len(t) - 1)), t[Len(t)])
  IN Sort(s)

\* DataFrame.head(n) for n >= 0.
head(s, n) == SubSeq(s, 1, IF n < Len(s) THEN n ELSE Len(s))

PairLess(a, b) ==
  IF a[1] # b[1] THEN StrLess(a[1], b[1]) ELSE StrLess(a[2], b[2])

\* MeanBefore that ignores the ascending flag.
MeanBeforeAscending(a, b, ascending) == MeanLess(a, b)

\* The order sort_values gives two means: ascending or descending.
MeanBefore(a, b, ascending) == IF ascending THEN MeanLess(a, b) ELSE MeanLess(b, a)

\* get_top_stations: groupby(['line', 'station']), mean and max, sort by the
\* mean, head(n), rank 1..len.
get_top_stations(rows, n, ascending) ==
  LET keys == SortedKeys({<<rows[i].line, rows[i].name>> : i \in 1..Len(rows)}, PairLess)
      Of(k) == LET In(r) == r.line = k[1] /\ r.name = k[2] IN SelectRows(rows, In)
      result == [g \in 1..Len(keys) |->
                   [line |-> keys[g][1], name |-> keys[g][2],
                    mean |-> Mean(Of(keys[g])), max |-> Max(Of(keys[g]))]]
      Before(a, b) == MeanBefore(a.mean, b.mean, ascending)
      top == head(StableSort(result, Before), n)
  IN [ok |-> TRUE,
      rows |-> [i \in 1..Len(top) |->
                  [rank |-> i, line |-> top[i].line, name |-> top[i].name,
                   mean |-> top[i].mean, max |-> top[i].max]]]

\* The per-slot means of groupby('slot'): one entry per label, in label order.
TimeAvg(rows) ==
  LET keys == SortedKeys({rows[i].slot : i \in 1..Len(rows)}, StrLess)
      Of(k) == LET In(r) == r.slot = k IN SelectRows(rows, In)
  IN [g \in 1..Len(keys) |-> [slot |-> keys[g], mean |-> Mean(Of(keys[g]))]]

\* IdxMax returning the last largest entry.
IdxMaxLast(avg) ==
  CHOOSE i \in 1..Len(avg) :
    /\ \A j \in 1..Len(avg) : ~MeanLess(avg[i].mean, avg[j].mean)
    /\ \A j \in (i + 1)..Len(avg) : MeanLess(avg[j].mean, avg[i].mean)

\* Series.idxmax(): the position of the first largest entry.
IdxMax(avg) ==
  CHOOSE i \in 1..Len(avg) :
    /\ \A j \in 1..Len(avg) : ~MeanLess(avg[i].mean, avg[j].mean)
    /\ \A j \in 1..(i - 1) : MeanLess(avg[j].mean, avg[i].mean)

\* Series.idxmin(): the position of the first smallest entry.
IdxMin(avg) ==
  CHOOSE i \in 1..Len(avg) :
    /\ \A j \in 1..Len(avg) : ~MeanLess(avg[j].mean, avg[i].mean)
    /\ \A j \in 1..(i - 1) : MeanLess(avg[i].mean, avg[j].mean)

\* get_peak_info: idxmax/idxmin of an empty series raise ValueError.
get_peak_info(rows) ==
  LET time_avg == TimeAvg(rows)
  IN IF time_avg = <<>> THEN Raise("ValueError")
     ELSE [ok |-> TRUE,
           peak_time |-> time_avg[IdxMax(time_avg)].slot,
           peak_congestion |-> time_avg[IdxMax(time_avg)].mean,
           quiet_time |-> time_avg[IdxMin(time_avg)].slot,
           quiet_congestion |-> time_avg[IdxMin(time_avg)].mean]

\* get_congestion_by_line counting a line's rows instead of its distinct
\* station names.
get_congestion_by_lineCount(rows) ==
  LET keys == SortedKeys({rows[i].line : i \in 1..Len(rows)}, StrLess)
      Of(k) == LET In(r) == r.line = k IN SelectRows(rows, In)
      line_no == LineNumbers(keys)
      result == [g \in 1..Len(keys) |->
                   [line |-> keys[g], mean |-> Mean(Of(keys[g])),
                    stations |-> Len(Of(keys[g])),
                    line_no |-> line_no.val[g]]]
      Before(a, b) == a.line_no < b.line_no
      sorted == StableSort(result, Before)
  IN IF ~line_no.ok THEN line_no
     ELSE [ok |-> TRUE,
           rows |-> [i \in 1..Len(sorted) |->
                       [line |-> sorted[i].line, mean |-> sorted[i].mean,
                        stations |-> sorted[i].stations]]]

\* get_congestion_by_line: groupby('line'), mean and nunique(station), sorted
\* by the extracted line number cast to int.
get_congestion_by_line(rows) ==
  LET keys == SortedKeys({rows[i].line : i \in 1..Len(rows)}, StrLess)
      Of(k) == LET In(r) == r.line = k IN SelectRows(rows, In)
      line_no == LineNumbers(keys)
      result == [g \in 1..Len(keys) |->
                   [line |-> keys[g], mean |-> Mean(Of(keys[g])),
                    stations |-> Cardinality({Of(keys[g])[i].name :
                                               i \in 1..Len(Of(keys[g]))}),
                    line_no |-> line_no.val[g]]]
      Before(a, b) == a.line_no < b.line_no
      sorted == StableSort(result, Before)
  IN IF ~line_no.ok THEN line_no
     ELSE [ok |-> TRUE,
           rows |-> [i \in 1..Len(sorted) |->
                       [line |-> sorted[i].line, mean |-> sorted[i].mean,
                        stations |-> sorted[i].stations]]]

\* x.replace('hoseon', ''): every occurrence of the two characters removed.
RECURSIVE RemoveHoseon(_)
RemoveHoseon(s) ==
  IF s = <<>> THEN <<>>
  ELSE IF Len(s) >= 2 /\ s[1] = "ho" /\ s[2] = "seon" THEN RemoveHoseon(SubSeq(s, 3, Len(s)))
  ELSE <<Head(s)>> \o RemoveHoseon(Tail(s))

\* The sort key of get_line_list: the number before 'hoseon', else 999.
LineListKey(x) ==
  LET t == Strip(RemoveHoseon(x))
  IN IF AllDigits(t) THEN DigitsVal(t, 0) ELSE LineListDefault

\* df['line'].unique(): the lines in order of first appearance.
RECURSIVE Unique(_, _)
Unique(s, seen) ==
  IF s = <<>> THEN <<>>
  ELSE IF Head(s) \in seen THEN Unique(Tail(s), seen)
  ELSE <<Head(s)>> \o Unique(Tail(s), seen \cup {Head(s)})

get_line_list(rows) ==
  LET lines == Unique([i \in 1..Len(rows) |-> rows[i].line], {})
      Before(a, b) == LineListKey(a) < LineListKey(b)
  IN StableSort(lines, Before)

\* The value of an enriched row in the column a query groups or pivots by.
FieldOf(r, col) ==
  IF col = ColDay THEN r.day
  ELSE IF col = ColLine THEN r.line
  ELSE IF col = ColStation THEN r.name
  ELSE r.dir

\* groupby(['slot', 'key'] or ['slot', 'key', group_by]) lists its keys in
\* this order; without group_by the third component is empty.
TimeKeyLess(a, b) ==
  IF a[1] # b[1] THEN StrLess(a[1], b[1])
  ELSE IF a[2] # b[2] THEN a[2] < b[2]
  ELSE StrLess(a[3], b[3])

\* get_congestion_by_time that ignores group_by.
get_congestion_by_timeUngrouped(rows, group_by) ==
  LET keys == SortedKeys({<<rows[i].slot, rows[i].key, <<>> >> : i \in 1..Len(rows)},
                         TimeKeyLess)
      Of(k) == LET In(r) == r.slot = k[1] /\ r.key = k[2] IN SelectRows(rows, In)
      result == [g \in 1..Len(keys) |->
                   [slot |-> keys[g][1], key |-> keys[g][2], group |-> keys[g][3],
                    mean |-> Mean(Of(keys[g]))]]
      Before(a, b) == a.key < b.key
  IN StableSort(result, Before)

\* get_congestion_by_time: the mean per (slot, key) or per (slot, key,
\* group_by), sorted by the key.
get_congestion_by_time(rows, group_by) ==
  LET GroupOf(r) == IF group_by # None THEN FieldOf(r, group_by.val) ELSE <<>>
      keys == SortedKeys({<<rows[i].slot, rows[i].key, GroupOf(rows[i])>> :
                            i \in 1..Len(rows)}, TimeKeyLess)
      Of(k) == LET In(r) == r.slot = k[1] /\ r.key = k[2] /\ GroupOf(r) = k[3]
               IN SelectRows(rows, In)
      result == [g \in 1..Len(keys) |->
                   [slot |-> keys[g][1], key |-> keys[g][2], group |-> keys[g][3],
                    mean |-> Mean(Of(keys[g]))]]
      Before(a, b) == a.key < b.key
  IN StableSort(result, Before)

\* SelectDay that takes every day-type literally.
SelectDayExact(rows, day_type) ==
  LET OfDay(r) == IF day_type # AllDays THEN r.day = day_type ELSE TRUE
  IN SelectRows(rows, OfDay)

\* The day-type selection of the time analyses: every row for AllDays,
\* Saturday and Sunday rows for Holiday, else the rows of the day-type.
SelectDay(rows, day_type) ==
  LET OfDay(r) ==
        IF day_type # AllDays
          THEN (IF day_type = Holiday THEN r.day \in {Saturday, Sunday}
                ELSE r.day = day_type)
          ELSE TRUE
  IN SelectRows(rows, OfDay)

\* A window that leaves out its last minute.
InWindowHalfOpen(key, first_hour, last_hour) ==
  key >= first_hour * 60 /\ key < last_hour * 60

\* (key >= first_hour*60) & (key <= last_hour*60)
InWindow(key, first_hour, last_hour) ==
  key >= first_hour * 60 /\ key <= last_hour * 60

\* Series.mean() of a non-empty series of means, as a fraction sum/cnt.
MeanOfMeans(avg) ==
  LET RECURSIVE Total(_)
      Total(i) ==
        IF i = 1 THEN avg[1].mean
        ELSE [sum |-> Total(i - 1).sum * avg[i].mean.cnt +
                        avg[i].mean.sum * Total(i - 1).cnt,
              cnt |-> Total(i - 1).cnt * avg[i].mean.cnt]
  IN [sum |-> Total(Len(avg)).sum, cnt |-> Total(Len(avg)).cnt * Len(avg)]

\* The three entries of one window: absent when the window has no slot.
PeakOf(peak) ==
  IF peak = <<>> THEN None
  ELSE Some([time |-> peak[IdxMax(peak)].slot,
             congestion |-> peak[IdxMax(peak)].mean,
             mean |-> MeanOfMeans(peak)])

\* get_peak_hours_pattern: the per-slot means of the day-type's rows in
\* the windows 7..9 and 17..19.
get_peak_hours_pattern(rows, day_type) ==
  LET time_avg == get_congestion_by_time(SelectDay(rows, day_type), None)
      Morning(t) == InWindow(t.key, 7, 9)
      Evening(t) == InWindow(t.key, 17, 19)
  IN [morning |-> PeakOf(SelectRows(time_avg, Morning)),
      evening |-> PeakOf(SelectRows(time_avg, Evening))]

\* get_station_data that selects by the station name alone.
get_station_dataAnyLine(rows, station, line) ==
  LET In(r) == r.name = station IN SelectRows(rows, In)

\* get_station_data: the rows of the station on the line.
get_station_data(rows, station, line) ==
  LET In(r) == r.name = station /\ r.line = line IN SelectRows(rows, In)

\* groupby(['station', 'line', 'line number']) lists its keys in this order.
StationKeyLess(a, b) ==
  IF a[1] # b[1] THEN StrLess(a[1], b[1])
  ELSE IF a[2] # b[2] THEN StrLess(a[2], b[2])
  ELSE a[3] < b[3]

\* get_congestion_by_specific_time: the rows of the time-slot and the
\* day-type, an empty DataFrame if there is none, else the mean per
\* (station, line, line number), sorted by the mean, largest first.
get_congestion_by_specific_time(rows, time_slot, day_type) ==
  LET AtSlot(r) == r.slot = time_slot
      OfDay(r) ==
        IF day_type # AllDays
          THEN (IF day_type = Holiday THEN r.day \in {Saturday, Sunday}
                ELSE r.day = day_type)
          ELSE TRUE
      df_filtered_ == SelectRows(SelectRows(rows, AtSlot), OfDay)
      keys == SortedKeys({<<df_filtered_[i].name, df_filtered_[i].line,
                            df_filtered_[i].line_no>> : i \in 1..Len(df_filtered_)},
                         StationKeyLess)
      Of(k) == LET In(r) == r.name = k[1] /\ r.line = k[2] /\ r.line_no = k[3]
               IN SelectRows(df_filtered_, In)
      result == [g \in 1..Len(keys) |->
                   [name |-> keys[g][1], line |-> keys[g][2], line_no |-> keys[g][3],
                    mean |-> Mean(Of(keys[g]))]]
      Before(a, b) == MeanLess(b.mean, a.mean)
  IN IF df_filtered_ = <<>> THEN <<>> ELSE StableSort(result, Before)

\* pd.DataFrame(): no index, no columns.
EmptyFrame == [index |-> <<>>, columns |-> <<>>, cells |-> <<>>]

\* get_station_heatmap_data: the station's means per (pivot value, slot,
\* key), pivoted to one row per pivot value and one column per slot, the
\* columns reindexed in the order of the key; a pair without rows is NaN.
get_station_heatmap_data(rows, station, line, pivot_by) ==
  LET station_df == get_station_data(rows, station, line)
      keys == SortedKeys({<<FieldOf(station_df[i], pivot_by), station_df[i].slot,
                            station_df[i].key>> : i \in 1..Len(station_df)},
                         StationKeyLess)
      Of(p, s) == LET In(r) == FieldOf(r, pivot_by) = p /\ r.slot = s
                  IN SelectRows(station_df, In)
      index == Unique([g \in 1..Len(keys) |-> keys[g][1]], {})
      Before(a, b) == a[3] < b[3]
      sorted == StableSort(keys, Before)
      time_order == Unique([g \in 1..Len(sorted) |-> sorted[g][2]], {})
  IN IF station_df = <<>> THEN EmptyFrame
     ELSE [index |-> index, columns |-> time_order,
           cells |-> [i \in 1..Len(index) |-> [j \in 1..Len(time_order) |->
                        IF Of(index[i], time_order[j]) = <<>> THEN NaN
                        ELSE Mean(Of(index[i], time_order[j]))]]]

\* A range that leaves out its last minute.
BetweenHalfOpen(key, start_minutes, end_minutes) ==
  key >= start_minutes /\ key < end_minutes

\* (key >= start_minutes) & (key <= end_minutes)
Between(key, start_minutes, end_minutes) ==
  key >= start_minutes /\ key <= end_minutes

\* get_time_range_congestion: the rows with the key between the minutes of
\* start_time and end_time and of the day-type, an empty DataFrame if there
\* is none, else the mean per (station, line, line number), sorted by the
\* mean, largest first.
get_time_range_congestion(rows, start_time, end_time, day_type) ==
  LET start_minutes == SortKey(start_time)
      end_minutes == SortKey(end_time)
      InRange(r) == Between(r.key, start_minutes.val, end_minutes.val)
      OfDay(r) ==
        IF day_type # AllDays
          THEN (IF day_type = Holiday THEN r.day \in {Saturday, Sunday}
                ELSE r.day = day_type)
          ELSE TRUE
      df_filtered_ == SelectRows(SelectRows(rows, InRange), OfDay)
      keys == SortedKeys({<<df_filtered_[i].name, df_filtered_[i].line,
                            df_filtered_[i].line_no>> : i \in 1..Len(df_filtered_)},
                         StationKeyLess)
      Of(k) == LET In(r) == r.name = k[1] /\ r.line = k[2] /\ r.line_no = k[3]
               IN SelectRows(df_filtered_, In)
      result == [g \in 1..Len(keys) |->
                   [name |-> keys[g][1], line |-> keys[g][2], line_no |-> keys[g][3],
                    mean |-> Mean(Of(keys[g]))]]
      Before(a, b) == MeanLess(b.mean, a.mean)
  IN IF ~start_minutes.ok THEN start_minutes
     ELSE IF ~end_minutes.ok THEN end_minutes
     ELSE IF df_filtered_ = <<>> THEN <<>> ELSE StableSort(result, Before)

\* pd.merge(df1, df2, on=['station', 'line'], how='inner'): the rows of df1
\* that have a partner in df2, in df1's order, with both values.
merge(df1, df2) ==
  LET RECURSIVE Join(_)
      Join(t) ==
        IF t = <<>> THEN <<>>
        ELSE LET l == Head(t)
                 Partner(r) == r.name = l.name /\ r.line = l.line
                 rs == SelectRows(df2, Partner)
             IN [i \in 1..Len(rs) |->
                   [name |-> l.name, line |-> l.line, first |-> l.mean,
                    second |-> rs[i].mean]] \o Join(Tail(t))
  IN Join(df1)

\* The difference second - first of two means, as a fraction sum/cnt.
Difference(second, first) ==
  [sum |-> second.sum * first.cnt - first.sum * second.cnt, cnt |-> first.cnt * second.cnt]

\* (first + second) / 2, as a fraction sum/cnt.
HalfSum(first, second) ==
  [sum |-> first.sum * second.cnt + second.sum * first.cnt,
   cnt |-> 2 * first.cnt * second.cnt]

\* compare_time_slots: an empty DataFrame if either snapshot is empty; with
\* time_slot1 = time_slot2 both value columns get one name, merge renames
\* them with suffixes and the lookup of the column raises KeyError.
compare_time_slots(rows, time_slot1, time_slot2, day_type, top_n) ==
  LET df1 == get_congestion_by_specific_time(rows, time_slot1, day_type)
      df2 == get_congestion_by_specific_time(rows, time_slot2, day_type)
      merged == merge(df1, df2)
      with == [i \in 1..Len(merged) |->
                 [name |-> merged[i].name, line |-> merged[i].line,
                  first |-> merged[i].first, second |-> merged[i].second,
                  difference |-> Difference(merged[i].second, merged[i].first),
                  average |-> HalfSum(merged[i].first, merged[i].second)]]
      Before(a, b) == MeanLess(b.average, a.average)
  IN IF df1 = <<>> \/ df2 = <<>> THEN [ok |-> TRUE, rows |-> <<>>]
     ELSE IF time_slot1 = time_slot2 THEN Raise("KeyError")
     ELSE [ok |-> TRUE, rows |-> head(StableSort(with, Before), top_n)]

(***************************************************************************)
(* State.  preprocess.py: pc is the position in main(), raw_exists,        *)
(* df_raw, df_processed and is_valid are its locals, artifact is the       *)
(* pickle file on disk.  A client of the Query Layer (a dashboard page, a   *)
(* script), started after the run has ended: df is the snapshot it loaded, *)
(* day_type, selected_lines and time_range are the arguments it hands to   *)
(* filter_data, df_filtered is filter_data's result and q is the Query     *)
(* Layer call made on it.  The functions are public: app.py's main()       *)
(* happens to return on an empty df_filtered before it calls them, other   *)
(* callers need not.                                                       *)
(***************************************************************************)
VARIABLES pc, raw_exists, df_raw, df_processed, is_valid, artifact,
          df, day_type, selected_lines, time_range, df_filtered, q

vars == <<pc, raw_exists, df_raw, df_processed, is_valid, artifact,
          df, day_type, selected_lines, time_range, df_filtered, q>>

driver == <<raw_exists, df_raw, df_processed, is_valid>>

app == <<df, day_type, selected_lines, time_range, df_filtered, q>>

NoArtifact == [exists |-> FALSE]

Init ==
  /\ pc = "check_files"
  /\ raw_exists = FALSE
  /\ df_raw = None
  /\ df_processed = None
  /\ is_valid = FALSE
  /\ artifact = NoArtifact
  /\ df = None
  /\ day_type = None
  /\ selected_lines = None
  /\ time_range = None
  /\ df_filtered = None
  /\ q = None

\* AfterCheckFiles without the return.
AfterCheckFilesNoReturn(exists) == "load"

\* Where main() goes after check_data_files().
AfterCheckFiles(exists) == IF exists THEN "load" ELSE "done"

\* 1. check_data_files(); a missing raw file ends the run.
CheckFiles ==
  /\ pc = "check_files"
  /\ \E e \in BOOLEAN :
       /\ raw_exists' = e
       /\ pc' = AfterCheckFiles(e)
  /\ UNCHANGED <<df_raw, df_processed, is_valid, artifact, app>>

\* 2. load_raw_data(): the file's table, or an exception that ends the run.
LoadRaw ==
  /\ pc = "load"
  /\ \/ \E sh \in Shapes :
          \E hs \in Choices(1, Len(RawHeaders), sh[2]),
             rs \in Choices(1, Len(RawIdRows), sh[1]),
             cells \in [1..sh[1] -> [1..sh[2] -> RawCells]] :
            /\ df_raw' = Return(RawTable(hs, rs, cells))
            /\ pc' = "preprocess"
     \/ \E k \in 1..(Len(RawIdHeaders) - 1) :
          /\ df_raw' = Return(ShortTable(k))
          /\ pc' = "preprocess"
     \/ df_raw' = Raise("UnicodeDecodeError") /\ pc' = "done"
  /\ UNCHANGED <<raw_exists, df_processed, is_valid, artifact, app>>

\* Where main() goes after the try block around preprocess_data.
AfterPreprocess(res) == IF res.ok THEN "validate" ELSE "done"

\* 3. preprocess_data(df_raw) inside try/except.
Preprocess ==
  /\ pc = "preprocess"
  /\ df_processed' = preprocess_data(df_raw.df)
  /\ pc' = AfterPreprocess(df_processed')
  /\ UNCHANGED <<raw_exists, df_raw, is_valid, artifact, app>>

\* Where main() goes after validate_data.
AfterValidate(valid) == IF valid THEN "save" ELSE "done"

\* 4. validate_data(df_processed); False ends the run.
Validate ==
  /\ pc = "validate"
  /\ is_valid' = validate_data(EnrichedFrame(df_processed.rows)).valid
  /\ pc' = AfterValidate(is_valid')
  /\ UNCHANGED <<raw_exists, df_raw, df_processed, artifact, app>>

\* 5.-7. print the statistics and the sample, then save_processed_data.
Save ==
  /\ pc = "save"
  /\ artifact' = [exists |-> TRUE, rows |-> df_processed.rows]
  /\ pc' = "done"
  /\ UNCHANGED <<driver, app>>

\* main() has returned: the process ends and only the file remains.
Exit ==
  /\ pc = "done"
  /\ pc' = "exited"
  /\ raw_exists' = FALSE
  /\ df_raw' = None
  /\ df_processed' = None
  /\ is_valid' = FALSE
  /\ UNCHANGED <<artifact, app>>

\* The client starts: load_processed_data() reads the pickle file, or
\* raises FileNotFoundError and the client stops.
LoadProcessed ==
  /\ pc = "exited"
  /\ IF artifact.exists
       THEN df' = [ok |-> TRUE, rows |-> artifact.rows] /\ pc' = "serve"
       ELSE df' = Raise("FileNotFoundError") /\ pc' = "stopped"
  /\ UNCHANGED <<driver, artifact, day_type, selected_lines, time_range, df_filtered, q>>

\* The arguments handed to filter_data: a day-type; for lines the default,
\* an empty list or a list of lines; for time_range the default or a pair
\* of hours.
DayTypeChoices == {AllDays, Weekday, Saturday, Sunday, Holiday}

LineChoices == {None, Some({}), Some({<<"2", "ho", "seon">>})}

TimeRangeChoices == {None, Some(<<8, 20>>)}

\* get_line_list(df), as for the sidebar's line selector.
LineList ==
  /\ pc = "serve"
  /\ q' = [fn |-> "get_line_list", ok |-> TRUE, lines |-> get_line_list(df.rows)]
  /\ pc' = "responded"
  /\ UNCHANGED <<driver, artifact, df, day_type, selected_lines, time_range, df_filtered>>

\* df_filtered = filter_data(df, day_type, lines, time_range)
Filter ==
  /\ pc = "serve"
  /\ \E d \in DayTypeChoices, l \in LineChoices, t \in TimeRangeChoices :
       /\ day_type' = d
       /\ selected_lines' = l
       /\ time_range' = t
       /\ df_filtered' = filter_data(df.rows, d, l, t)
  /\ pc' = "filtered"
  /\ UNCHANGED <<driver, artifact, df, q>>

\* The time-slots and the day-types handed to compare_time_slots.
SlotChoices == {<<"0", "8", ":", "0", "0">>, <<"2", "0", ":", "0", "0">>}

CompareDayChoices == {AllDays, Weekday}

\* compare_time_slots(df, time_slot1, time_slot2, day_type, top_n) on the
\* snapshot.
CompareSlots ==
  /\ pc = "serve"
  /\ \E s1 \in SlotChoices, s2 \in SlotChoices, d \in CompareDayChoices, n \in 0..MaxN :
       q' = [fn |-> "compare_time_slots", time_slot1 |-> s1, time_slot2 |-> s2,
             day_type |-> d, top_n |-> n,
             res |-> compare_time_slots(df.rows, s1, s2, d, n)]
  /\ pc' = "responded"
  /\ UNCHANGED <<driver, artifact, df, day_type, selected_lines, time_range, df_filtered>>

\* One Query Layer call on df_filtered, its result kept in q.
Answer(call) ==
  /\ pc = "filtered"
  /\ q' = call
  /\ pc' = "responded"
  /\ UNCHANGED <<driver, artifact, df, day_type, selected_lines, time_range, df_filtered>>

TopStations ==
  \E n \in 0..MaxN, ascending \in BOOLEAN :
    Answer([fn |-> "get_top_stations", n |-> n, ascending |-> ascending,
            res |-> get_top_stations(df_filtered, n, ascending)])

PeakInfo == Answer([fn |-> "get_peak_info", res |-> get_peak_info(df_filtered)])

ByLine ==
  Answer([fn |-> "get_congestion_by_line", res |-> get_congestion_by_line(df_filtered)])

\* The result is used; the client goes on to its next call.
Rerun ==
  /\ pc = "responded"
  /\ pc' = "serve"
  /\ day_type' = None
  /\ selected_lines' = None
  /\ time_range' = None
  /\ df_filtered' = None
  /\ q' = None
  /\ UNCHANGED <<driver, artifact, df>>

Next ==
  \/ CheckFiles \/ LoadRaw \/ Preprocess \/ Validate \/ Save \/ Exit
  \/ LoadProcessed \/ LineList \/ CompareSlots
  \/ Filter \/ TopStations \/ PeakInfo \/ ByLine
  \/ Rerun

Spec == Init /\ [][Next]_vars

(***************************************************************************)
(* The pure functions on inputs of their own.  pc is "idle" or "returned", *)
(* q is the call and its result; nothing else changes.                     *)
(***************************************************************************)
FunctionInit ==
  /\ pc = "idle"
  /\ raw_exists = FALSE
  /\ df_raw = None
  /\ df_processed = None
  /\ is_valid = FALSE
  /\ artifact = NoArtifact
  /\ df = None
  /\ day_type = None
  /\ selected_lines = None
  /\ time_range = None
  /\ df_filtered = None
  /\ q = None

Returned(call) ==
  /\ pc = "idle"
  /\ q' = call
  /\ pc' = "returned"
  /\ UNCHANGED <<driver, artifact, df, day_type, selected_lines, time_range, df_filtered>>

\* A row as melt_to_long_format makes it, at hour:minute with the occupancy.
MeltedRow(hour, minute, occupancy) ==
  [day |-> RawIdRows[1][1], line |-> RawIdRows[1][2], stno |-> RawIdRows[1][3],
   name |-> RawIdRows[1][4], dir |-> RawIdRows[1][5], extra |-> <<>>,
   slot |-> Format02d(hour) \o <<":">> \o Format02d(minute),
   occ |-> occupancy, key |-> hour * 60 + minute]

\* add_derived_columns on a one-row table.
Enrich ==
  \E hour \in 1..MaxHour, minute \in {0, 30}, occupancy \in 0..MaxOccupancy :
    Returned([fn |-> "add_derived_columns", hour |-> hour, minute |-> minute,
              occupancy |-> occupancy,
              res |-> add_derived_columns(<<MeltedRow(hour, minute, occupancy)>>)])

\* The tables handed to validate_data: all columns or one required column
\* missing, a numeric or an object occupancy column, values in and out of
\* the range 0..200, with or without a null cell.
Frames ==
  [columns : {required_columns} \cup {required_columns \ {c} : c \in required_columns},
   numeric : BOOLEAN,
   values : {<<>>, <<30>>, <<-3>>, <<250>>, <<-3, 250>>},
   nulls : {0, 1}]

CheckTable ==
  \E f \in Frames : Returned([fn |-> "validate_data", df |-> f, res |-> validate_data(f)])

(***************************************************************************)
(* Objects.  A heap is the sequence of the tables that exist, a reference  *)
(* is an index into it.  df.copy() makes a new object; an assignment to a  *)
(* column or to df.columns writes to the object the name refers to;        *)
(* pd.melt, groupby, boolean indexing and tolist() make new objects.       *)
(***************************************************************************)
\* A name bound to the argument itself instead of to a copy.
copyAlias(heap, ref) == [heap |-> heap, ref |-> ref]

\* df.copy()
copy(heap, ref) == [heap |-> Append(heap, heap[ref]), ref |-> Len(heap) + 1]

\* The writes of a stage to the object at ref, taken together.
Store(heap, ref, value) == [heap EXCEPT ![ref] = value]

\* A result written over the newest object instead of into a new one.
NewInPlace(heap, value) ==
  [heap |-> [heap EXCEPT ![Len(heap)] = value], ref |-> Len(heap)]

\* A result that is a new object.
New(heap, value) == [heap |-> Append(heap, value), ref |-> Len(heap) + 1]

\* One call: the heap before and after it, its argument, what it returned.
Call(fn, before, arg, ok, after, ref) ==
  [fn |-> fn, before |-> before, arg |-> arg, ok |-> ok, after |-> after, ref |-> ref]

\* A stage that copies its argument, writes to the copy and returns it.
call_clean_column_names(heap, df_) ==
  LET c == copy(heap, df_)
      r == clean_column_names(c.heap[c.ref])
  IN Call("clean_column_names", heap, df_, r.ok,
          IF r.ok THEN Store(c.heap, c.ref, r.df) ELSE c.heap, c.ref)

call_convert_time_columns(heap, df_) ==
  LET c == copy(heap, df_)
      r == convert_time_columns(c.heap[c.ref])
  IN Call("convert_time_columns", heap, df_, r.ok,
          IF r.ok THEN Store(c.heap, c.ref, r.df) ELSE c.heap, c.ref)

call_clean_congestion_values(heap, df_) ==
  LET c == copy(heap, df_)
      r == clean_congestion_values(c.heap[c.ref], TimeColumns(c.heap[c.ref]))
  IN Call("clean_congestion_values", heap, df_, r.ok,
          IF r.ok THEN Store(c.heap, c.ref, r.df) ELSE c.heap, c.ref)

\* pd.melt makes df_long, the sort-key column is written to it.
call_melt_to_long_format(heap, df_) ==
  LET r == melt_to_long_format(heap[df_])
      n == New(heap, IF r.ok THEN r.rows ELSE <<>>)
  IN Call("melt_to_long_format", heap, df_, r.ok, n.heap, n.ref)

call_add_derived_columns(heap, df_) ==
  LET c == copy(heap, df_)
      r == add_derived_columns(c.heap[c.ref])
  IN Call("add_derived_columns", heap, df_, r.ok,
          IF r.ok THEN Store(c.heap, c.ref, r.rows) ELSE c.heap, c.ref)

\* filter_data copies, then each criterion makes a new object of the rows
\* it keeps.
call_filter_data(heap, df_, d, l, t) ==
  LET c == copy(heap, df_)
      n == New(c.heap, filter_data(c.heap[c.ref], d, l, t))
  IN Call("filter_data", heap, df_, TRUE, n.heap, n.ref)

\* A Query Layer function: its result is a new object.
call_query(fn, heap, df_, result) ==
  LET n == New(heap, result)
  IN Call(fn, heap, df_, TRUE, n.heap, n.ref)

\* The calls of preprocess_data on the raw table, up to the first that
\* raises, then the Query Layer calls on the table it returned.
RECURSIVE Stages(_, _)
Stages(done, k) ==
  LET last == done[Len(done)]
  IN IF ~last.ok \/ k > 5 THEN done
     ELSE Stages(Append(done,
            CASE k = 2 -> call_convert_time_columns(last.after, last.ref)
              [] k = 3 -> call_clean_congestion_values(last.after, last.ref)
              [] k = 4 -> call_melt_to_long_format(last.after, last.ref)
              [] k = 5 -> call_add_derived_columns(last.after, last.ref)), k + 1)

Queries(heap, df_) ==
  LET c1 == call_filter_data(heap, df_, Holiday, None, Some(<<8, 20>>))
      c2 == call_query("get_top_stations", c1.after, df_,
                       get_top_stations(c1.after[df_], 1, FALSE))
      c3 == call_query("get_peak_info", c2.after, df_, get_peak_info(c2.after[df_]))
      c4 == call_query("get_congestion_by_line", c3.after, df_,
                       get_congestion_by_line(c3.after[df_]))
      c5 == call_query("get_line_list", c4.after, df_, get_line_list(c4.after[df_]))
      c6 == call_query("compare_time_slots", c5.after, df_,
                       compare_time_slots(c5.after[df_], <<"0", "8", ":", "0", "0">>,
                                          <<"2", "0", ":", "0", "0">>, AllDays, 1))
  IN <<c1, c2, c3, c4, c5, c6>>

Calls(raw) ==
  LET stages == Stages(<<call_clean_column_names(<<raw>>, 1)>>, 2)
      last == stages[Len(stages)]
  IN IF last.ok THEN stages \o Queries(last.after, last.ref) ELSE stages

\* The stages and the Query Layer functions on a one-cell file.
RunCore ==
  \E h \in 1..Len(RawHeaders), r \in 1..Len(RawIdRows), cell \in RawCells :
    LET raw == RawTable(<<h>>, <<r>>, <<<<cell>>>>)
    IN Returned([fn |-> "core", raw |-> raw, calls |-> Calls(raw)])

(***************************************************************************)
(* The Query Layer on enriched tables of its own: every table of up to     *)
(* MaxRows rows drawn from a set of rows, as the pipeline would leave it:  *)
(* sorted by melt_to_long_format and enriched by add_derived_columns.      *)
(***************************************************************************)
Downward == <<"ha", "seon">>

\* The row of identifier row id, in direction dir, at time-slot
\* <<hour, minute>>, with the occupancy.
QueryRow(id, dir, slot, occupancy) ==
  [MeltedRow(slot[1], slot[2], occupancy) EXCEPT
     !.day = RawIdRows[id][1], !.line = RawIdRows[id][2], !.stno = RawIdRows[id][3],
     !.name = RawIdRows[id][4], !.dir = dir]

QueryTables(R) ==
  {add_derived_columns(SortRows(s)).rows : s \in UNION {[1..n -> R] : n \in 0..MaxRows}}

\* get_congestion_by_time(df) and get_congestion_by_time(df, group_by).
ByTime ==
  \E rows \in QueryTables({QueryRow(id, RawIdRows[id][5], slot, occ) :
                             id \in {1, 2}, slot \in {<<8, 0>>, <<20, 0>>, <<24, 30>>},
                             occ \in {30, 80}}),
     group_by \in {None, Some(ColDay), Some(ColLine)} :
    Returned([fn |-> "get_congestion_by_time", rows |-> rows, group_by |-> group_by,
              res |-> get_congestion_by_time(rows, group_by)])

\* get_peak_hours_pattern(df, day_type)
PeakHours ==
  \E rows \in QueryTables({QueryRow(1, RawIdRows[1][5], slot, occ) :
                             slot \in {<<6, 30>>, <<7, 0>>, <<9, 0>>, <<9, 30>>,
                                       <<17, 0>>, <<19, 0>>, <<19, 30>>},
                             occ \in {30, 80}}
                          \cup {QueryRow(5, RawIdRows[5][5], <<7, 0>>, 80)}),
     d \in {AllDays, Weekday, Holiday} :
    Returned([fn |-> "get_peak_hours_pattern", rows |-> rows, day_type |-> d,
              res |-> get_peak_hours_pattern(rows, d)])

\* get_station_heatmap_data(df, station, line, pivot_by)
Heatmap ==
  \E rows \in QueryTables({QueryRow(1, dir, slot, occ) :
                             dir \in {RawIdRows[1][5], Downward},
                             slot \in {<<8, 0>>, <<20, 0>>}, occ \in {30, 80}}
                          \cup {QueryRow(id, RawIdRows[id][5], <<8, 0>>, 30) :
                                  id \in {2, 5}}),
     id \in {1, 2}, pivot_by \in {ColDirection, ColDay} :
    Returned([fn |-> "get_station_heatmap_data", rows |-> rows,
              station |-> RawIdRows[id][4], line |-> RawIdRows[id][2],
              pivot_by |-> pivot_by,
              res |-> get_station_heatmap_data(rows, RawIdRows[id][4],
                                               RawIdRows[id][2], pivot_by)])

\* Headers a file may carry in its sixth column: well-formed and malformed
\* time headers, labels that already hold a colon, and a header that is no
\* time header.
LabelChoices ==
  { <<"8", "si", "3", "0", "bun">>, <<"si", "bun">>, <<"x", "si", "3", "0", "bun">>,
    <<"8", "si", "x", "bun">>, <<"si", "si", "bun">>,
    <<"8", ":", "3", "0">>, <<"8", ":", "x">>, <<"x", ":", "3", "0">>, <<"8", ":">>,
    <<"bi", "go">> }

\* preprocess_data on a one-row file whose sixth header is the label.
RunLabel ==
  \E label \in LabelChoices, cell \in RawCells :
    LET raw == [columns |-> Append(RawIdHeaders, label),
                rows |-> <<Append(RawIdRows[1], cell)>>]
    IN Returned([fn |-> "preprocess_data", raw |-> raw, res |-> preprocess_data(raw)])

\* filter_data(df, "all", None, time_range) with the dashboard's default
\* range (5, 24) and a narrower one.
FilterRange ==
  \E rows \in QueryTables({QueryRow(id, RawIdRows[id][5], slot, occ) :
                             id \in {1, 2},
                             slot \in {<<5, 30>>, <<8, 0>>, <<20, 0>>, <<20, 30>>,
                                       <<24, 0>>, <<24, 30>>},
                             occ \in {30}}),
     t \in {Some(<<5, 24>>), Some(<<8, 20>>)} :
    Returned([fn |-> "filter_data", rows |-> rows, day_type |-> AllDays,
              lines |-> None, time_range |-> t,
              res |-> filter_data(rows, AllDays, None, t)])

\* The time-slot labels handed to the time analyses.
SlotLabel(slot) == Format02d(slot[1]) \o <<":">> \o Format02d(slot[2])

\* The rows of the tables of the two analyses: a weekday station with two
\* rows at one slot, a Saturday and a Sunday station.
SnapshotRows ==
  {QueryRow(1, RawIdRows[1][5], <<8, 0>>, 30), QueryRow(1, RawIdRows[1][5], <<8, 0>>, 80),
   QueryRow(1, RawIdRows[1][5], <<18, 0>>, 30), QueryRow(2, RawIdRows[2][5], <<8, 0>>, 80),
   QueryRow(3, RawIdRows[3][5], <<8, 0>>, 30), QueryRow(3, RawIdRows[3][5], <<18, 0>>, 80)}

\* get_congestion_by_specific_time(df, time_slot, day_type)
Snapshot ==
  \E rows \in QueryTables(SnapshotRows),
     slot \in {<<8, 0>>, <<18, 0>>}, d \in DayTypeChoices :
    Returned([fn |-> "get_congestion_by_specific_time", rows |-> rows,
              time_slot |-> SlotLabel(slot), day_type |-> d,
              res |-> get_congestion_by_specific_time(rows, SlotLabel(slot), d)])

\* get_time_range_congestion(df, start_time, end_time, day_type)
TimeRange ==
  \E rows \in QueryTables(SnapshotRows),
     start \in {<<8, 0>>, <<18, 0>>}, end \in {<<8, 0>>, <<18, 0>>},
     d \in DayTypeChoices :
    Returned([fn |-> "get_time_range_congestion", rows |-> rows,
              start_time |-> SlotLabel(start), end_time |-> SlotLabel(end),
              day_type |-> d,
              res |-> get_time_range_congestion(rows, SlotLabel(start),
                                                SlotLabel(end), d)])

\* One day-type handed to filter_data and to the three time analyses, each
\* on every row of a table by itself.
DayType ==
  \E rows \in QueryTables({QueryRow(id, RawIdRows[id][5], slot, 30) :
                             id \in {1, 2, 3}, slot \in {<<8, 0>>, <<18, 0>>}}),
     d \in DayTypeChoices :
    Returned([fn |-> "day_type", rows |-> rows, day_type |-> d,
              filter |-> [i \in 1..Len(rows) |->
                            filter_data(<<rows[i]>>, d, None, None)],
              snapshot |-> [i \in 1..Len(rows) |->
                              get_congestion_by_specific_time(<<rows[i]>>,
                                                              rows[i].slot, d)],
              pattern |-> [i \in 1..Len(rows) |->
                             get_peak_hours_pattern(<<rows[i]>>, d)],
              window |-> [i \in 1..Len(rows) |->
                            get_time_range_congestion(<<rows[i]>>, rows[i].slot,
                                                      rows[i].slot, d)]])

Back ==
  /\ pc = "returned"
  /\ pc' = "idle"
  /\ q' = None
  /\ UNCHANGED <<driver, artifact, df, day_type, selected_lines, time_range, df_filtered>>

FunctionNext == Enrich \/ CheckTable \/ RunCore \/ RunLabel \/ Back

FunctionSpec == FunctionInit /\ [][FunctionNext]_vars

QueryNext ==
  \/ ByTime \/ PeakHours \/ Heatmap \/ FilterRange
  \/ Snapshot \/ TimeRange \/ DayType
  \/ Back

QuerySpec == FunctionInit /\ [][QueryNext]_vars

(***************************************************************************)
(* Concurrent callers.  The snapshot df is one object that every caller's  *)
(* session holds, loaded from the artifact; pc, df_filtered and q are per   *)
(* caller: the position, the table filter_data returned to it and its     *)
(* call.  A caller evaluates get_congestion_by_time(filter_data(df, d)) in  *)
(* two steps, or get_congestion_by_time(df) in one, and the steps of the   *)
(* callers interleave.                                                     *)
(***************************************************************************)
Callers == 1..MaxCallers

SharedInit ==
  /\ \E rows \in QueryTables({QueryRow(id, RawIdRows[id][5], slot, 30) :
                                id \in {1, 2}, slot \in {<<8, 0>>, <<20, 0>>}}) :
       /\ artifact = [exists |-> TRUE, rows |-> rows]
       /\ df = [ok |-> TRUE, rows |-> rows]
  /\ pc = [c \in Callers |-> "serve"]
  /\ df_filtered = [c \in Callers |-> None]
  /\ q = [c \in Callers |-> None]
  /\ raw_exists = FALSE
  /\ df_raw = None
  /\ df_processed = None
  /\ is_valid = FALSE
  /\ day_type = None
  /\ selected_lines = None
  /\ time_range = None

\* filter_data(df, day_type=d) by caller c: the inner call.
SharedFilter(c) ==
  /\ pc[c] = "serve"
  /\ \E d \in {AllDays, Weekday, Holiday} :
       LET call == call_filter_data(<<df.rows>>, 1, d, None, None)
       IN /\ df' = [df EXCEPT !.rows = call.after[1]]
          /\ df_filtered' = [df_filtered EXCEPT ![c] = Some(call.after[call.ref])]
          /\ q' = [q EXCEPT ![c] = [fn |-> "get_congestion_by_time",
                                    filtered |-> TRUE, day_type |-> d]]
  /\ pc' = [pc EXCEPT ![c] = "filtered"]
  /\ UNCHANGED <<driver, artifact, day_type, selected_lines, time_range>>

\* get_congestion_by_time on the table filter_data returned to caller c.
SharedByTime(c) ==
  /\ pc[c] = "filtered"
  /\ LET call == call_query("get_congestion_by_time", <<df.rows, df_filtered[c].val>>, 2,
                            get_congestion_by_time(df_filtered[c].val, None))
     IN /\ df' = [df EXCEPT !.rows = call.after[1]]
        /\ df_filtered' = [df_filtered EXCEPT ![c] = Some(call.after[2])]
        /\ q' = [q EXCEPT ![c] = [fn |-> "get_congestion_by_time", filtered |-> TRUE,
                                  day_type |-> q[c].day_type,
                                  res |-> call.after[call.ref]]]
  /\ pc' = [pc EXCEPT ![c] = "responded"]
  /\ UNCHANGED <<driver, artifact, day_type, selected_lines, time_range>>

\* get_congestion_by_time(df) by caller c, on the snapshot itself.
SharedDirect(c) ==
  /\ pc[c] = "serve"
  /\ LET call == call_query("get_congestion_by_time", <<df.rows>>, 1,
                            get_congestion_by_time(df.rows, None))
     IN /\ df' = [df EXCEPT !.rows = call.after[1]]
        /\ q' = [q EXCEPT ![c] = [fn |-> "get_congestion_by_time", filtered |-> FALSE,
                                  day_type |-> AllDays,
                                  res |-> call.after[call.ref]]]
  /\ pc' = [pc EXCEPT ![c] = "responded"]
  /\ UNCHANGED <<driver, artifact, day_type, selected_lines, time_range, df_filtered>>

\* Caller c has used its result.
SharedRerun(c) ==
  /\ pc[c] = "responded"
  /\ pc' = [pc EXCEPT ![c] = "serve"]
  /\ df_filtered' = [df_filtered EXCEPT ![c] = None]
  /\ q' = [q EXCEPT ![c] = None]
  /\ UNCHANGED <<driver, artifact, df, day_type, selected_lines, time_range>>

SharedNext ==
  \E c \in Callers :
    SharedFilter(c) \/ SharedByTime(c) \/ SharedDirect(c) \/ SharedRerun(c)

SharedSpec == SharedInit /\ [][SharedNext]_vars

(***************************************************************************)
(* Properties.                                                             *)
(***************************************************************************)
\* The run has called preprocess_data on the loaded table.
PreprocessCalled == df_raw.ok /\ df_processed # None

\* The run has called preprocess_data on a loaded table that has the five
\* identifier columns.
Preprocessed == PreprocessCalled /\ Len(df_raw.df.columns) >= Len(RawIdHeaders)

\* The time-slot columns of the raw file: those after the five identifiers.
RawTimeCols(raw) == 6..Len(raw.columns)

\* The canonical label of a raw header.
Canonical(header) == TimeMappingEntry(header).label

HeadersParse(raw) == \A c \in RawTimeCols(raw) : TimeMappingEntry(raw.columns[c]).ok

HeadersCollide(raw) ==
  \E c1, c2 \in RawTimeCols(raw) :
    c1 # c2 /\ Canonical(raw.columns[c1]) = Canonical(raw.columns[c2])

LinesHaveDigits(raw) == \A r \in 1..Len(raw.rows) : \E i \in 1..Len(raw.rows[r][2]) :
                          IsDigit(raw.rows[r][2][i])

\* The enriched rows that carry the identifiers of raw row r.
SameIds(raw, r, row) ==
  /\ row.day = raw.rows[r][1]
  /\ row.line = raw.rows[r][2]
  /\ row.stno = raw.rows[r][3]
  /\ row.name = raw.rows[r][4]
  /\ row.dir = raw.rows[r][5]

\* The enriched rows made of raw row r and raw column c.
RowsOf(raw, out, r, c) ==
  {i \in 1..Len(out) : SameIds(raw, r, out[i]) /\ out[i].slot = Canonical(raw.columns[c])}

\* C1: when preprocess_data returns a table, every (raw row, time-slot
\* column) pair has exactly one enriched row, carrying the row's
\* identifiers, the column's canonical label and the cleaned cell, and the
\* table has rows x columns rows and no other.
C1_Completeness ==
  (Preprocessed /\ df_processed.ok) =>
    LET raw == df_raw.df
        out == df_processed.rows
    IN /\ Len(out) = Len(raw.rows) * Cardinality(RawTimeCols(raw))
       /\ \A r \in 1..Len(raw.rows), c \in RawTimeCols(raw) :
            /\ Cardinality(RowsOf(raw, out, r, c)) = 1
            /\ \A i \in RowsOf(raw, out, r, c) : out[i].occ = CleanCell(raw.rows[r][c])

C1_Witness ==
  /\ Preprocessed /\ df_processed.ok
  /\ Len(df_raw.df.rows) = 1 /\ Len(df_processed.rows) = 2
  /\ df_processed.rows[1].occ = 80 /\ df_processed.rows[2].occ = 0

\* C2: while main() runs and after it returns, the pickle file exists only
\* if the raw file existed, load_raw_data and preprocess_data returned and
\* validate_data returned True.
C2_SaveOnlyAfterSuccess ==
  (pc \in {"check_files", "load", "preprocess", "validate", "save", "done"}
     /\ artifact.exists)
    => (raw_exists /\ df_raw.ok /\ df_processed.ok /\ is_valid)

C2_Witness == pc = "done" /\ artifact.exists /\ Len(artifact.rows) = 2

\* C3: every row of the table preprocess_data returns has occupancy >= 0.
C3_NonNegative ==
  (Preprocessed /\ df_processed.ok) =>
    \A i \in 1..Len(df_processed.rows) : df_processed.rows[i].occ >= 0

C3_Witness ==
  /\ Preprocessed /\ df_processed.ok
  /\ \E r \in 1..Len(df_raw.df.rows), c \in RawTimeCols(df_raw.df) :
       /\ df_raw.df.rows[r][c] = <<"-", "3">>
       /\ \A i \in RowsOf(df_raw.df, df_processed.rows, r, c) :
            df_processed.rows[i].occ = 0

\* The hour and the minute written in a raw header "<H>si<MM>bun".
RawHour(header) == ParseInt(Split(header, "si")[1]).val

RawMinute(header) == ParseInt(Split(Split(header, "si")[2], "bun")[1]).val

\* The place of a raw header in the service day: the hours 1 to 23 in
\* wall-clock order, then hour 0.
ServiceMinute(header) == ((RawHour(header) + 23) % 24) * 60 + RawMinute(header)

\* C4: of two time-slots of one (line, station, direction, day-type)
\* group, the one earlier in the service day has the smaller sort-key, and
\* a raw hour-0 slot has a greater sort-key than a raw hour-23 slot.
C4_SortKeyMonotonic ==
  (Preprocessed /\ df_processed.ok) =>
    LET raw == df_raw.df
        out == df_processed.rows
    IN \A r \in 1..Len(raw.rows), c1, c2 \in RawTimeCols(raw) :
         \A i \in RowsOf(raw, out, r, c1), j \in RowsOf(raw, out, r, c2) :
           /\ ServiceMinute(raw.columns[c1]) < ServiceMinute(raw.columns[c2])
                => out[i].key < out[j].key
           /\ (RawHour(raw.columns[c1]) = 23 /\ RawHour(raw.columns[c2]) = 0)
                => out[i].key < out[j].key

C4_Witness ==
  /\ Preprocessed /\ df_processed.ok
  /\ Len(df_processed.rows) = 2
  /\ df_processed.rows[1].slot = <<"2", "3", ":", "3", "0">>
  /\ df_processed.rows[1].key = 1410
  /\ df_processed.rows[2].slot = <<"2", "4", ":", "3", "0">>
  /\ df_processed.rows[2].key = 1470

\* A text that is a number once stripped: digits, with at most one sign
\* in front.
IsNumberText(t) ==
  LET u == Strip(t)
  IN \/ AllDigits(u)
     \/ u # <<>> /\ Head(u) \in {"+", "-"} /\ AllDigits(Tail(u))

\* C5: whatever the cells hold, the cleaner does not raise: with headers
\* that parse and do not collide and lines that carry a number the
\* pipeline returns a table, and a cell that is no number once stripped
\* has occupancy 0 in it.
C5_CleanerNeverRaises ==
  (Preprocessed /\ HeadersParse(df_raw.df) /\ ~HeadersCollide(df_raw.df)
     /\ LinesHaveDigits(df_raw.df)) =>
    /\ df_processed.ok
    /\ \A r \in 1..Len(df_raw.df.rows), c \in RawTimeCols(df_raw.df) :
         ~IsNumberText(df_raw.df.rows[r][c]) =>
           \A i \in RowsOf(df_raw.df, df_processed.rows, r, c) :
             df_processed.rows[i].occ = 0

C5_Witness ==
  /\ Preprocessed /\ df_processed.ok
  /\ \E r \in 1..Len(df_raw.df.rows), c \in RawTimeCols(df_raw.df) :
       /\ df_raw.df.rows[r][c] = <<" ", "7", " ", "5", " ">>
       /\ \E i \in RowsOf(df_raw.df, df_processed.rows, r, c) :
            df_processed.rows[i].occ = 0

\* The table functions of the Query Layer.
TableFunctions == {"get_top_stations", "get_congestion_by_line"}

LineHasDigit(line) == \E i \in 1..Len(line) : IsDigit(line[i])

\* In the listing lines, no line without a number stands before one with.
NumberedFirst(lines) ==
  \A i, j \in 1..Len(lines) :
    (i < j /\ LineHasDigit(lines[j])) => LineHasDigit(lines[i])

\* C6: a line without a digit gets no ordinal and the pipeline still
\* returns a table, and get_congestion_by_line and get_line_list return
\* with the lines that carry no number after those that do.
C6_NonNumericLinesSortLast ==
  /\ (Preprocessed /\ HeadersParse(df_raw.df) /\ ~HeadersCollide(df_raw.df))
       => df_processed.ok
  /\ (pc = "responded" /\ q.fn = "get_congestion_by_line") =>
       /\ q.res.ok
       /\ NumberedFirst([i \in 1..Len(q.res.rows) |-> q.res.rows[i].line])
  /\ (pc = "responded" /\ q.fn = "get_line_list") => NumberedFirst(q.lines)

\* C7: filter_data with Sunday on a table without Sunday rows returns no
\* row, and every Query Layer function returns an empty result on a table
\* without rows and does not raise.
C7_EmptyResultContract ==
  /\ (pc = "filtered" /\ day_type = Sunday
        /\ \A i \in 1..Len(df.rows) : df.rows[i].day \in {Weekday, Saturday})
       => df_filtered = <<>>
  /\ (pc = "responded" /\ q.fn \in TableFunctions \cup {"get_peak_info"}
        /\ df_filtered = <<>>) =>
       /\ q.res.ok
       /\ q.fn \in TableFunctions => q.res.rows = <<>>

\* C8: with two raw headers of one canonical label the pipeline
\* returns a table in which the label stands once per identifier row, with
\* the later header's cell.
C8_LastHeaderWins ==
  (Preprocessed /\ HeadersParse(df_raw.df) /\ HeadersCollide(df_raw.df)
     /\ LinesHaveDigits(df_raw.df)) =>
    /\ df_processed.ok
    /\ \A r \in 1..Len(df_raw.df.rows), c \in RawTimeCols(df_raw.df) :
         /\ Cardinality(RowsOf(df_raw.df, df_processed.rows, r, c)) = 1
         /\ (\A d \in RawTimeCols(df_raw.df) :
               Canonical(df_raw.df.columns[d]) = Canonical(df_raw.df.columns[c])
                 => d <= c)
              => \A i \in RowsOf(df_raw.df, df_processed.rows, r, c) :
                   df_processed.rows[i].occ = CleanCell(df_raw.df.rows[r][c])

Min(a, b) == IF a < b THEN a ELSE b

\* The (line, station) pairs and the station names of a table.
LineStations(rows) == {<<rows[i].line, rows[i].name>> : i \in 1..Len(rows)}

StationNames(rows) == {rows[i].name : i \in 1..Len(rows)}

\* The mean occupancy of the rows of one (line, station).
StationMean(rows, k) ==
  LET In(r) == r.line = k[1] /\ r.name = k[2] IN Mean(SelectRows(rows, In))

\* What get_top_stations returned is a ranking of the table's (line,
\* station) pairs by mean occupancy, cut to `length` rows.
IsRanking(res, rows, length, ascending) ==
  LET top == res.rows
      Worse(a, b) == IF ascending THEN MeanLess(b, a) ELSE MeanLess(a, b)
  IN /\ res.ok
     /\ Len(top) = length
     /\ \A i \in 1..Len(top) :
          /\ top[i].rank = i
          /\ <<top[i].line, top[i].name>> \in LineStations(rows)
          /\ top[i].mean = StationMean(rows, <<top[i].line, top[i].name>>)
     /\ \A i, j \in 1..Len(top) : i < j => ~Worse(top[i].mean, top[j].mean)
     /\ \A i, j \in 1..Len(top) :
          i # j => <<top[i].line, top[i].name>> # <<top[j].line, top[j].name>>
     /\ \A k \in LineStations(rows) :
          (\A i \in 1..Len(top) : <<top[i].line, top[i].name>> # k) =>
             \A i \in 1..Len(top) : ~Worse(top[i].mean, StationMean(rows, k))

\* C9 as stated: the ranking has min(n, number of distinct stations) rows.
C9_TopN_DistinctStations ==
  (pc = "responded" /\ q.fn = "get_top_stations") =>
    IsRanking(q.res, df_filtered,
              Min(q.n, Cardinality(StationNames(df_filtered))), q.ascending)

\* C9, amended: get_top_stations(table, n, ascending) has min(n, number of
\* distinct (line, station) pairs) rows, ranked 1, 2, ..., in non-increasing
\* order of mean occupancy, non-decreasing with ascending=True.
C9_TopN ==
  (pc = "responded" /\ q.fn = "get_top_stations") =>
    IsRanking(q.res, df_filtered,
              Min(q.n, Cardinality(LineStations(df_filtered))), q.ascending)

C9_Witness ==
  /\ pc = "responded" /\ q.fn = "get_top_stations"
  /\ q.n = 2 /\ ~q.ascending
  /\ Len(q.res.rows) = 2
  /\ MeanLess(q.res.rows[2].mean, q.res.rows[1].mean)

\* The time-slots of a table, the mean occupancy of one and its sort-key.
SlotsOf(rows) == {rows[i].slot : i \in 1..Len(rows)}

SlotMean(rows, s) == LET In(r) == r.slot = s IN Mean(SelectRows(rows, In))

SlotKey(rows, s) == CHOOSE k \in {rows[i].key : i \in 1..Len(rows)} :
                      \E i \in 1..Len(rows) : rows[i].slot = s /\ rows[i].key = k

\* C10: on a table with rows get_peak_info returns a time-slot of largest
\* mean occupancy with that mean and one of smallest mean with that mean,
\* each the earliest by sort-key among the slots that tie.
C10_PeakInfo ==
  (pc = "responded" /\ q.fn = "get_peak_info" /\ df_filtered # <<>>) =>
    /\ q.res.ok
    /\ q.res.peak_time \in SlotsOf(df_filtered)
    /\ q.res.quiet_time \in SlotsOf(df_filtered)
    /\ q.res.peak_congestion = SlotMean(df_filtered, q.res.peak_time)
    /\ q.res.quiet_congestion = SlotMean(df_filtered, q.res.quiet_time)
    /\ \A s \in SlotsOf(df_filtered) :
         /\ ~MeanLess(q.res.peak_congestion, SlotMean(df_filtered, s))
         /\ ~MeanLess(SlotMean(df_filtered, s), q.res.quiet_congestion)
         /\ MeanEq(SlotMean(df_filtered, s), q.res.peak_congestion)
              => SlotKey(df_filtered, q.res.peak_time) <= SlotKey(df_filtered, s)
         /\ MeanEq(SlotMean(df_filtered, s), q.res.quiet_congestion)
              => SlotKey(df_filtered, q.res.quiet_time) <= SlotKey(df_filtered, s)

C10_Witness ==
  /\ pc = "responded" /\ q.fn = "get_peak_info"
  /\ Len(df_filtered) = 2
  /\ df_filtered[1].slot = <<"0", "8", ":", "0", "0">> /\ df_filtered[1].occ = 80
  /\ df_filtered[2].slot = <<"2", "0", ":", "0", "0">> /\ df_filtered[2].occ = 30
  /\ q.res.peak_time = <<"0", "8", ":", "0", "0">>
  /\ q.res.peak_congestion = [sum |-> 80, cnt |-> 1]
  /\ q.res.quiet_time = <<"2", "0", ":", "0", "0">>
  /\ q.res.quiet_congestion = [sum |-> 30, cnt |-> 1]

\* The rows of the snapshot a day-type argument keeps.
DayKeeps(d, r) ==
  CASE d = AllDays -> TRUE
    [] d = Holiday -> r.day = Saturday \/ r.day = Sunday
    [] OTHER -> r.day = d

\* The rows a lines argument keeps.
LineKeeps(l, r) ==
  IF l = None THEN TRUE ELSE (l.val = {} \/ r.line \in l.val)

C12_FilterTimeRange ==
  pc = "filtered" =>
    LET others == filter_data(df.rows, day_type, selected_lines, None)
        InRange(r) ==
          time_range = None
            \/ (time_range.val[1] * 60 <= r.key /\ r.key <= time_range.val[2] * 60)
    IN df_filtered = SelectRows(others, InRange)

C12_Witness ==
  /\ pc = "filtered" /\ time_range = Some(<<8, 20>>)
  /\ day_type = AllDays /\ selected_lines = None
  /\ Len(df.rows) = 2
  /\ df.rows[1].key = 1200 /\ df.rows[2].key = 1410
  /\ df_filtered = <<df.rows[1]>>

\* The (station, line) pairs with a row at the time-slot and the day-type.
SnapshotPairs(rows, slot, d) ==
  {<<rows[i].name, rows[i].line>> :
     i \in {j \in 1..Len(rows) : rows[j].slot = slot /\ DayKeeps(d, rows[j])}}

\* The mean occupancy of a (station, line) pair at the time-slot.
SnapshotMean(rows, slot, d, k) ==
  LET In(r) == r.slot = slot /\ DayKeeps(d, r) /\ r.name = k[1] /\ r.line = k[2]
  IN Mean(SelectRows(rows, In))

\* What compare_time_slots returned is the comparison of the two snapshots,
\* cut to top_n rows.
IsComparison(res, rows, slotA, slotB, d, top_n) ==
  LET both == SnapshotPairs(rows, slotA, d) \cap SnapshotPairs(rows, slotB, d)
      A(k) == SnapshotMean(rows, slotA, d, k)
      B(k) == SnapshotMean(rows, slotB, d, k)
      out == res.rows
      Key(i) == <<out[i].name, out[i].line>>
  IN /\ res.ok
     /\ Len(out) = Min(top_n, Cardinality(both))
     /\ \A i \in 1..Len(out) :
          /\ Key(i) \in both
          /\ out[i].difference.sum * (A(Key(i)).cnt * B(Key(i)).cnt)
               = (B(Key(i)).sum * A(Key(i)).cnt - A(Key(i)).sum * B(Key(i)).cnt)
                   * out[i].difference.cnt
          /\ 2 * out[i].average.sum * (A(Key(i)).cnt * B(Key(i)).cnt)
               = (B(Key(i)).sum * A(Key(i)).cnt + A(Key(i)).sum * B(Key(i)).cnt)
                   * out[i].average.cnt
     /\ \A i, j \in 1..Len(out) : i # j => Key(i) # Key(j)
     /\ \A i, j \in 1..Len(out) : i < j => ~MeanLess(out[i].average, out[j].average)

\* C13: compare_time_slots returns one row per (station, line) pair of both
\* snapshots, at most top_n of them, each with the difference slotB - slotA
\* of the means and their half-sum, in non-increasing order of the half-sum.
C13_CompareTimeSlots ==
  (pc = "responded" /\ q.fn = "compare_time_slots") =>
    IsComparison(q.res, df.rows, q.time_slot1, q.time_slot2, q.day_type, q.top_n)

\* compare_time_slots on two different time-slots.
C13_DistinctSlots ==
  (pc = "responded" /\ q.fn = "compare_time_slots" /\ q.time_slot1 # q.time_slot2) =>
    IsComparison(q.res, df.rows, q.time_slot1, q.time_slot2, q.day_type, q.top_n)

C13_DistinctSlotsWitness ==
  /\ pc = "responded" /\ q.fn = "compare_time_slots"
  /\ q.time_slot1 = <<"0", "8", ":", "0", "0">>
  /\ q.time_slot2 = <<"2", "0", ":", "0", "0">>
  /\ q.top_n = 1 /\ Len(q.res.rows) = 1
  /\ q.res.rows[1].first = [sum |-> 80, cnt |-> 1]
  /\ q.res.rows[1].second = [sum |-> 30, cnt |-> 1]
  /\ q.res.rows[1].difference = [sum |-> -50, cnt |-> 1]

\* C14: on a raw table with fewer than five columns clean_column_names
\* raises, preprocess_data raises with it and the run ends without an
\* artifact; with five or more columns the first five are named day-type,
\* line, station number, station, direction, the other names and the rows
\* are as they were.
C14_SchemaNormalizer ==
  PreprocessCalled =>
    LET raw == df_raw.df
        res == clean_column_names(raw)
    IN IF Len(raw.columns) < 5
         THEN /\ ~res.ok
              /\ df_processed = res
              /\ pc = "done" /\ ~artifact.exists
         ELSE /\ res.ok
              /\ Len(res.df.columns) = Len(raw.columns)
              /\ SubSeq(res.df.columns, 1, 5)
                   = <<ColDay, ColLine, ColStationNo, ColStation, ColDirection>>
              /\ \A c \in 6..Len(raw.columns) : res.df.columns[c] = raw.columns[c]
              /\ res.df.rows = raw.rows

C14_Witness ==
  /\ PreprocessCalled /\ pc = "done"
  /\ Len(df_raw.df.columns) = 4
  /\ df_processed = Raise("ValueError")
  /\ ~artifact.exists

\* A header of the form <int>si<int>bun.
IsTimeHeader(h) ==
  \E i \in 2..(Len(h) - 2) :
    /\ h[i] = "si" /\ h[Len(h)] = "bun"
    /\ AllDigits(SubSeq(h, 1, i - 1))
    /\ AllDigits(SubSeq(h, i + 1, Len(h) - 1))

\* A number below 100 written with two digits.
TwoDigits(n) == IF n < 10 THEN <<"0">> \o NatStr(n) ELSE NatStr(n)

\* What convert_time_columns returned names every <int>si<int>bun header
\* "HH:MM", hour 0 as 24, and every other header as it was.
IsCanonicalized(res, named) ==
  /\ res.ok
  /\ Len(res.df.columns) = Len(named.columns)
  /\ res.df.rows = named.rows
  /\ \A c \in 1..Len(named.columns) :
       LET h == named.columns[c]
       IN IF IsTimeHeader(h)
            THEN res.df.columns[c]
                   = TwoDigits(IF RawHour(h) = 0 THEN 24 ELSE RawHour(h))
                       \o <<":">> \o TwoDigits(RawMinute(h))
            ELSE res.df.columns[c] = h

\* C15: convert_time_columns returns the table with every <int>si<int>bun
\* header renamed to zero-padded "HH:MM" of the same hour and minute, hour
\* 0 written 24, and with every other header under its name.
C15_Canonicalization ==
  Preprocessed =>
    LET named == clean_column_names(df_raw.df).df
    IN IsCanonicalized(convert_time_columns(named), named)

\* convert_time_columns on a table whose time headers all have the form.
C15_TimeHeadersOnly ==
  (Preprocessed /\ \A c \in RawTimeCols(df_raw.df) : IsTimeHeader(df_raw.df.columns[c])) =>
    LET named == clean_column_names(df_raw.df).df
    IN IsCanonicalized(convert_time_columns(named), named)

C15_TimeHeadersOnlyWitness ==
  /\ Preprocessed /\ df_processed.ok
  /\ Len(df_raw.df.columns) = 7
  /\ df_raw.df.columns[6] = <<"8", "si", "0", "0", "bun">>
  /\ df_raw.df.columns[7] = <<"0", "si", "3", "0", "bun">>
  /\ convert_time_columns(clean_column_names(df_raw.df).df).df.columns[6]
       = <<"0", "8", ":", "0", "0">>
  /\ convert_time_columns(clean_column_names(df_raw.df).df).df.columns[7]
       = <<"2", "4", ":", "3", "0">>

\* The minutes from 00:00 to the time-slot of a raw header, the hour 0
\* counted as 24.
MinutesOfDay(header) ==
  60 * (IF RawHour(header) = 0 THEN 24 ELSE RawHour(header)) + RawMinute(header)

\* C16 as stated: the sort-key of an enriched row is the number of minutes
\* from 05:00 to its time-slot.
C16_MinutesSinceFive ==
  (Preprocessed /\ df_processed.ok) =>
    \A r \in 1..Len(df_raw.df.rows), c \in RawTimeCols(df_raw.df) :
      \A i \in RowsOf(df_raw.df, df_processed.rows, r, c) :
        df_processed.rows[i].key = MinutesOfDay(df_raw.df.columns[c]) - 5 * 60

\* C16, amended: the sort-key of an enriched row is a natural number, the
\* number of minutes from 00:00 to its time-slot: 60 * HH + MM of the label,
\* the hour 0 counted as 24.
C16_MinutesSinceMidnight ==
  (Preprocessed /\ df_processed.ok) =>
    \A r \in 1..Len(df_raw.df.rows), c \in RawTimeCols(df_raw.df) :
      \A i \in RowsOf(df_raw.df, df_processed.rows, r, c) :
        /\ df_processed.rows[i].key \in Nat
        /\ df_processed.rows[i].key = MinutesOfDay(df_raw.df.columns[c])

C16_Witness ==
  /\ Preprocessed /\ df_processed.ok
  /\ \E i \in 1..Len(df_processed.rows) :
       /\ df_processed.rows[i].slot = <<"0", "8", ":", "0", "0">>
       /\ df_processed.rows[i].key = 480

\* C17: the level add_derived_columns gives a row is one of the three,
\* relaxed exactly when occupancy < 50, normal exactly when
\* 50 <= occupancy < 70, congested exactly when occupancy >= 70.
C17_OccupancyLevel ==
  (pc = "returned" /\ q.fn = "add_derived_columns") =>
    /\ q.res.ok /\ Len(q.res.rows) = 1
    /\ LET level == q.res.rows[1].level
           occ == q.occupancy
       IN /\ level \in {LevelRelaxed, LevelNormal, LevelCongested}
          /\ level = LevelRelaxed <=> occ < 50
          /\ level = LevelNormal <=> (50 <= occ /\ occ < 70)
          /\ level = LevelCongested <=> occ >= 70

C17_Witness ==
  /\ pc = "returned" /\ q.fn = "add_derived_columns"
  /\ q.occupancy = 80
  /\ q.res.rows[1].occ = 80
  /\ q.res.rows[1].level = LevelCongested

\* The period of the fixed hour-range table.
PeriodOfHour(hour) ==
  CASE hour \in 5..8 -> "commute_in"
    [] hour \in 9..11 -> "morning"
    [] hour \in 12..13 -> "lunch"
    [] hour \in 14..17 -> "afternoon"
    [] hour \in 18..20 -> "commute_out"
    [] hour \in 21..23 -> "evening"
    [] OTHER -> "late_night"

C19_ValidateData ==
  (pc = "returned" /\ q.fn = "validate_data") =>
    /\ q.res.valid \in BOOLEAN
    /\ ~q.res.valid <=> (~(required_columns \subseteq q.df.columns) \/ ~q.df.numeric)
    /\ q.res.valid =>
         /\ "negative" \in q.res.warnings <=> \E i \in 1..Len(q.df.values) : q.df.values[i] < 0
         /\ "high" \in q.res.warnings <=> \E i \in 1..Len(q.df.values) : q.df.values[i] > 200
         /\ "null" \in q.res.warnings <=> q.df.nulls > 0

C19_Witness ==
  /\ pc = "returned" /\ q.fn = "validate_data"
  /\ q.df.columns = required_columns /\ q.df.numeric
  /\ q.df.values = <<-3, 250>> /\ q.df.nulls = 1
  /\ q.res = [valid |-> TRUE, warnings |-> {"negative", "high", "null"}]

\* C20: no stage and no Query Layer function changes the table it is
\* given: after every call each object that existed before it, its argument
\* among them, has the columns, the rows and the values it had.
C20_Purity ==
  (pc = "returned" /\ q.fn = "core") =>
    \A k \in 1..Len(q.calls) :
      /\ q.calls[k].arg \in 1..Len(q.calls[k].before)
      /\ \A i \in 1..Len(q.calls[k].before) :
           q.calls[k].after[i] = q.calls[k].before[i]

C20_Witness ==
  /\ pc = "returned" /\ q.fn = "core"
  /\ Len(q.calls) = 11
  /\ q.calls[1].fn = "clean_column_names"
  /\ q.calls[1].after[q.calls[1].ref].columns # q.raw.columns
  /\ q.calls[1].after[1] = q.raw
  /\ q.calls[11].after[1] = q.raw

\* The lines of a table, the rows of one line and the number a line's name
\* starts with.
LinesOf(rows) == {rows[i].line : i \in 1..Len(rows)}

LineRows(rows, l) == LET In(r) == r.line = l IN SelectRows(rows, In)

LineOrdinal(l) ==
  CHOOSE n \in 0..99 :
    /\ Len(l) > Len(NatStr(n))
    /\ SubSeq(l, 1, Len(NatStr(n))) = NatStr(n)
    /\ ~IsDigit(l[Len(NatStr(n)) + 1])

\* C22: get_congestion_by_line returns one row per distinct line of the
\* table, with the mean occupancy of the line's rows and the number of
\* distinct station names on the line, in non-decreasing order of the
\* line's number.
C22_ByLine ==
  (pc = "responded" /\ q.fn = "get_congestion_by_line") =>
    /\ q.res.ok
    /\ {q.res.rows[i].line : i \in 1..Len(q.res.rows)} = LinesOf(df_filtered)
    /\ Len(q.res.rows) = Cardinality(LinesOf(df_filtered))
    /\ \A i \in 1..Len(q.res.rows) :
         /\ q.res.rows[i].mean = Mean(LineRows(df_filtered, q.res.rows[i].line))
         /\ q.res.rows[i].stations =
              Cardinality(StationNames(LineRows(df_filtered, q.res.rows[i].line)))
    /\ \A i, j \in 1..Len(q.res.rows) :
         i < j => LineOrdinal(q.res.rows[i].line) <= LineOrdinal(q.res.rows[j].line)

C22_Witness ==
  /\ pc = "responded" /\ q.fn = "get_congestion_by_line"
  /\ Len(df_filtered) = 2
  /\ Len(q.res.rows) = 2
  /\ LineOrdinal(q.res.rows[1].line) < LineOrdinal(q.res.rows[2].line)
  /\ q.res.rows[1].stations = 1

\* The (time-slot, group value) pairs of a table grouped by group_by, and
\* the rows of one pair.
TimeGroups(rows, group_by) ==
  {<<rows[i].slot, IF group_by = None THEN <<>> ELSE FieldOf(rows[i], group_by.val)>> :
     i \in 1..Len(rows)}

TimeGroupRows(rows, group_by, k) ==
  LET In(r) == /\ r.slot = k[1]
               /\ (group_by # None => FieldOf(r, group_by.val) = k[2])
  IN SelectRows(rows, In)

\* C23: get_congestion_by_time returns one row per distinct time-slot, or
\* per distinct (time-slot, group value) pair when a group key is given,
\* with the mean occupancy of the matching rows, in non-decreasing order of
\* the sort-key.
C23_ByTime ==
  (pc = "returned" /\ q.fn = "get_congestion_by_time") =>
    /\ {<<q.res[i].slot, q.res[i].group>> : i \in 1..Len(q.res)} =
         TimeGroups(q.rows, q.group_by)
    /\ Len(q.res) = Cardinality(TimeGroups(q.rows, q.group_by))
    /\ \A i \in 1..Len(q.res) :
         /\ q.res[i].mean =
              Mean(TimeGroupRows(q.rows, q.group_by, <<q.res[i].slot, q.res[i].group>>))
         /\ q.res[i].key = SlotKey(q.rows, q.res[i].slot)
    /\ \A i, j \in 1..Len(q.res) : i < j => q.res[i].key <= q.res[j].key

C23_Witness ==
  /\ pc = "returned" /\ q.fn = "get_congestion_by_time"
  /\ q.group_by = Some(ColDay)
  /\ Len(q.rows) = 2
  /\ q.rows[1].slot = q.rows[2].slot
  /\ Len(q.res) = 2

\* The rows the day-type d keeps, the time-slots of a table whose sort-key
\* lies in [lo, hi] (minutes), and the sum of their means over their number.
DayRows(rows, d) == LET In(r) == DayKeeps(d, r) IN SelectRows(rows, In)

WindowSlots(rows, lo, hi) ==
  {s \in SlotsOf(rows) : lo <= SlotKey(rows, s) /\ SlotKey(rows, s) <= hi}

RECURSIVE SumOfSlotMeans(_, _)
SumOfSlotMeans(rows, S) ==
  IF S = {} THEN [sum |-> 0, cnt |-> 1]
  ELSE LET s == CHOOSE x \in S : TRUE
           m == SlotMean(rows, s)
           rest == SumOfSlotMeans(rows, S \ {s})
       IN [sum |-> m.sum * rest.cnt + rest.sum * m.cnt, cnt |-> m.cnt * rest.cnt]

\* What get_peak_hours_pattern reports of one window.
IsWindowPeak(entry, rows, lo, hi) ==
  LET slots == WindowSlots(rows, lo, hi)
      total == SumOfSlotMeans(rows, slots)
  IN IF slots = {} THEN entry = None
     ELSE /\ entry.ok
          /\ entry.val.time \in slots
          /\ entry.val.congestion = SlotMean(rows, entry.val.time)
          /\ \A s \in slots : ~MeanLess(entry.val.congestion, SlotMean(rows, s))
          /\ MeanEq(entry.val.mean,
                    [sum |-> total.sum, cnt |-> total.cnt * Cardinality(slots)])

\* C24: get_peak_hours_pattern reports, of the per-slot means of the
\* day-type's rows with sort-key in [07:00, 09:00], the slot of the largest
\* mean, that mean and the average of the per-slot means, the same for
\* [17:00, 19:00], and nothing for a window without a slot.
C24_PeakHoursPattern ==
  (pc = "returned" /\ q.fn = "get_peak_hours_pattern") =>
    /\ IsWindowPeak(q.res.morning, DayRows(q.rows, q.day_type), 7 * 60, 9 * 60)
    /\ IsWindowPeak(q.res.evening, DayRows(q.rows, q.day_type), 17 * 60, 19 * 60)

C24_Witness ==
  /\ pc = "returned" /\ q.fn = "get_peak_hours_pattern"
  /\ q.day_type = Weekday
  /\ Len(q.rows) = 2
  /\ q.rows[1].key = 7 * 60 /\ q.rows[1].occ = 30
  /\ q.rows[2].key = 9 * 60 /\ q.rows[2].occ = 80
  /\ q.res.morning.ok
  /\ q.res.morning.val.time = q.rows[2].slot
  /\ MeanEq(q.res.morning.val.mean, [sum |-> 55, cnt |-> 1])
  /\ q.res.evening = None

\* The rows of a (station, line), its values in the pivot column, and its
\* rows of one (pivot value, time-slot).
StationRows(rows, station, line) ==
  LET In(r) == r.name = station /\ r.line = line IN SelectRows(rows, In)

PivotValues(rows, pivot_by) == {FieldOf(rows[i], pivot_by) : i \in 1..Len(rows)}

PivotRows(rows, pivot_by, p, s) ==
  LET In(r) == FieldOf(r, pivot_by) = p /\ r.slot = s IN SelectRows(rows, In)

\* C25: for a (station, line) with rows get_station_heatmap_data returns one
\* row per distinct value of the pivot column and one column per distinct
\* time-slot of the station, the columns in strictly increasing sort-key
\* order, each cell the mean occupancy of its (pivot value, time-slot), not
\* a number where the pair has no row; for a (station, line) without rows it
\* returns an empty table.
C25_Heatmap ==
  (pc = "returned" /\ q.fn = "get_station_heatmap_data") =>
    LET of == StationRows(q.rows, q.station, q.line)
        res == q.res
    IN IF of = <<>> THEN res = EmptyFrame
       ELSE /\ {res.index[i] : i \in 1..Len(res.index)} = PivotValues(of, q.pivot_by)
            /\ Len(res.index) = Cardinality(PivotValues(of, q.pivot_by))
            /\ {res.columns[j] : j \in 1..Len(res.columns)} = SlotsOf(of)
            /\ \A j, k \in 1..Len(res.columns) :
                 j < k => SlotKey(of, res.columns[j]) < SlotKey(of, res.columns[k])
            /\ \A i \in 1..Len(res.index), j \in 1..Len(res.columns) :
                 LET group == PivotRows(of, q.pivot_by, res.index[i], res.columns[j])
                 IN res.cells[i][j] = IF group = <<>> THEN NaN ELSE Mean(group)

C25_Witness ==
  /\ pc = "returned" /\ q.fn = "get_station_heatmap_data"
  /\ q.pivot_by = ColDirection
  /\ Len(q.res.index) = 2
  /\ Len(q.res.columns) = 2
  /\ q.res.cells[1][1] = [sum |-> 80, cnt |-> 1]
  /\ q.res.cells[1][2] = NaN

C25_EmptyWitness ==
  /\ pc = "returned" /\ q.fn = "get_station_heatmap_data"
  /\ q.rows # <<>>
  /\ q.res = EmptyFrame

\* A text Python's int() reads: digits, with an optional sign and spaces
\* around them.
IsIntegerText(t) ==
  LET u == Strip(t)
      body == IF u # <<>> /\ Head(u) \in {"+", "-"} THEN Tail(u) ELSE u
  IN body # <<>> /\ \A i \in 1..Len(body) : IsDigit(body[i])

\* The hour and minute parts of a header the pipeline treats as a time-slot
\* column: an <hour>si<minute>bun header, or a label with a colon.
HourMinuteParts(h) ==
  IF Contains(h, "si") /\ Contains(h, "bun")
       /\ Len(Split(Strip(Replace(Replace(h, "si", <<":">>), "bun", <<>>)), ":")) = 2
    THEN Split(Strip(Replace(Replace(h, "si", <<":">>), "bun", <<>>)), ":")
  ELSE IF Contains(h, ":") THEN SubSeq(Split(h, ":"), 1, 2)
  ELSE <<>>

IsMalformedLabel(h) ==
  \E i \in 1..Len(HourMinuteParts(h)) : ~IsIntegerText(HourMinuteParts(h)[i])

\* C26: when a header treated as a time-slot column has an hour or minute
\* part that is not an integer, preprocess_data raises and there is no
\* enriched table; no sort-key or period is made up for it.
C26_MalformedLabelRaises ==
  (pc = "returned" /\ q.fn = "preprocess_data") =>
    ((\E i \in 1..Len(q.raw.columns) : IsMalformedLabel(q.raw.columns[i]))
       => (~q.res.ok /\ q.res.err = "ValueError"))

C26_Witness ==
  /\ pc = "returned" /\ q.fn = "preprocess_data"
  /\ q.raw.columns[6] = <<"8", ":", "x">>
  /\ ~q.res.ok

C26_WellFormedWitness ==
  /\ pc = "returned" /\ q.fn = "preprocess_data"
  /\ q.raw.columns[6] = <<"8", ":", "3", "0">>
  /\ q.res.ok
  /\ q.res.rows[1].key = 8 * 60 + 30

\* The hour of a canonical time-slot label HH:MM.
HourOf(slot) == DigitsVal(Split(slot, ":")[1], 0)

\* C27: filter_data with the time-range (s, e) keeps every row whose label
\* has an hour h with s <= h <= e, the slots at hour e past the full hour
\* included; with (5, 24), every day-type and no line set it returns every
\* row of a table whose slots run from 05:30 to 24:30.
C27_FilterByHour ==
  (pc = "returned" /\ q.fn = "filter_data") =>
    LET InHours(r) == /\ q.time_range.val[1] <= HourOf(r.slot)
                      /\ HourOf(r.slot) <= q.time_range.val[2]
    IN q.res = SelectRows(q.rows, InHours)

\* The rows at 24:30 are in the table and not in the result of the default
\* range.
C27_LastSlotDropped ==
  /\ pc = "returned" /\ q.fn = "filter_data"
  /\ q.time_range = Some(<<5, 24>>)
  /\ Len(q.rows) = 2
  /\ q.rows[1].slot = <<"0", "5", ":", "3", "0">>
  /\ q.rows[2].slot = <<"2", "4", ":", "3", "0">>
  /\ q.res = <<q.rows[1]>>

\* C28: for each of the five day-types the day-type step of
\* get_congestion_by_specific_time, of get_peak_hours_pattern and of
\* get_time_range_congestion keeps a row exactly when filter_data with that
\* day-type keeps it.
C28_SameDaySelection ==
  (pc = "returned" /\ q.fn = "day_type") =>
    \A i \in 1..Len(q.rows) :
      LET kept == q.filter[i] # <<>>
      IN /\ kept = DayKeeps(q.day_type, q.rows[i])
         /\ (q.snapshot[i] # <<>>) = kept
         /\ (q.pattern[i].morning # None \/ q.pattern[i].evening # None) = kept
         /\ (q.window[i] # <<>>) = kept

C28_Witness ==
  /\ pc = "returned" /\ q.fn = "day_type"
  /\ q.day_type = Holiday
  /\ Len(q.rows) = 2
  /\ q.rows[1].day = Saturday /\ q.rows[2].day = Weekday
  /\ q.filter[1] # <<>> /\ q.pattern[1].morning # None
  /\ q.filter[2] = <<>> /\ q.window[2] = <<>>

\* C30: for a time-slot label s of the table and every day-type,
\* get_time_range_congestion(table, s, s, day-type) returns the (station,
\* line) pairs, the means and the descending order that
\* get_congestion_by_specific_time(table, s, day-type) returns, and both
\* return an empty table when no row matches.
C30_OneSlotWindow ==
  (/\ pc = "returned" /\ q.fn = "get_time_range_congestion"
   /\ q.start_time = q.end_time /\ q.start_time \in SlotsOf(q.rows)) =>
    LET snapshot == get_congestion_by_specific_time(q.rows, q.start_time, q.day_type)
    IN /\ Len(q.res) = Len(snapshot)
       /\ \A i \in 1..Len(q.res) :
            /\ q.res[i].name = snapshot[i].name
            /\ q.res[i].line = snapshot[i].line
            /\ q.res[i].mean = snapshot[i].mean
            /\ q.res[i].mean = SnapshotMean(q.rows, q.start_time, q.day_type,
                                            <<q.res[i].name, q.res[i].line>>)
       /\ \A i, j \in 1..Len(q.res) : i < j => ~MeanLess(q.res[i].mean, q.res[j].mean)
       /\ (SnapshotPairs(q.rows, q.start_time, q.day_type) = {}) => (q.res = <<>>)

C30_Witness ==
  /\ pc = "returned" /\ q.fn = "get_time_range_congestion"
  /\ q.start_time = q.end_time /\ q.start_time \in SlotsOf(q.rows)
  /\ q.day_type = Holiday
  /\ Len(q.res) = 2
  /\ MeanLess(q.res[2].mean, q.res[1].mean)

C30_EmptyWitness ==
  /\ pc = "returned" /\ q.fn = "get_time_range_congestion"
  /\ q.start_time = q.end_time /\ q.start_time \in SlotsOf(q.rows)
  /\ q.res = <<>>

\* C29: compare_time_slots returns a table without raising for every pair
\* of time-slot labels of the table, the pair of one label with itself
\* included, where every returned station has difference 0 and an average
\* equal to its occupancy at the slot.
C29_CompareNeverRaises ==
  (/\ pc = "responded" /\ q.fn = "compare_time_slots"
   /\ q.time_slot1 \in SlotsOf(df.rows) /\ q.time_slot2 \in SlotsOf(df.rows)) =>
    /\ q.res.ok
    /\ (q.time_slot1 = q.time_slot2) =>
         \A i \in 1..Len(q.res.rows) :
           /\ q.res.rows[i].difference.sum = 0
           /\ MeanEq(q.res.rows[i].average, q.res.rows[i].first)

\* The same label twice, present in the table, and the call has raised.
C29_SameSlotRaises ==
  /\ pc = "responded" /\ q.fn = "compare_time_slots"
  /\ q.time_slot1 = q.time_slot2 /\ q.time_slot1 \in SlotsOf(df.rows)
  /\ q.day_type = AllDays
  /\ q.res = Raise("KeyError")

\* What the call of a caller returns when it runs alone on the snapshot as
\* loaded.
Alone(call) ==
  get_congestion_by_time(IF call.filtered
                           THEN filter_data(artifact.rows, call.day_type, None, None)
                           ELSE artifact.rows, None)

=============================================================================
